---- MODULE Spec2Model ----
(***************************************************************************)
(* Model of the Redis-backed AgentOrchestrator (backend/agent/             *)
(* orchestrator.ts), the store it writes (backend/services/redis.ts) and   *)
(* the control routes of backend/server.ts, for one tenant.                *)
(*                                                                         *)
(* JavaScript runs one callback at a time: a step of the model is the code *)
(* that runs between two awaits.  Every run() invocation is a "loop" with  *)
(* a program counter naming the await it is suspended at; its record also  *)
(* holds the handler's local variables.                                    *)
(*                                                                         *)
(* Further parts: the trade arithmetic on given portfolios (TradeSpec,     *)
(* ScenarioSpec), the history reads of the store (HistorySpec), and the    *)
(* agent registry, WebSocket observers and SIGINT handler of server.ts for *)
(* several tenants (ServerSpec).                                           *)
(***************************************************************************)
EXTENDS Integers, Sequences, FiniteSets, TLC

(* ------------------------------ bounds -------------------------------- *)
MaxStarts == 2   \* start() calls that pass the isRunning guard
MaxStops  == 1   \* stop() calls
MaxPuts   == 1   \* PUT /api/user/configure requests
MaxFaults == 1   \* calls of external services that throw
MaxTime   == 1   \* last value of the clock
MaxTrades == 4   \* length of the trade ledger
MaxInstances == 2 \* AgentOrchestrator instances the server constructs
MaxRequests  == 2 \* POST /api/agent/start requests
MaxClients   == 2 \* WebSocket connections
MaxInbox     == 2 \* messages recorded per connection
MaxLimit     == 3 \* largest limit asked of a history route
MaxCycles    == 2 \* executeCycle calls of the AgentExecutor
MaxAnswers   == 3 \* answers of POST /api/agent/stop
MaxBuffer    == 2 \* events kept in this.events (100 in the source)

(* ------------------------- program constants -------------------------- *)
mockPrice        == 100  \* reference price per share
Day              == 1    \* 24 * 60 * 60 * 1000 ms, in clock units
DailyTradeLimit  == 3    \* todayTrades.length < 3
PositionLimitPct == 30   \* newExposure <= 30
MinImpact        == 7    \* impact_score >= 7
MinConfidence    == 75   \* confidence >= 0.75, in hundredths
ShortContent     == 200  \* fullContent.length < 200
TradesRead       == 100  \* redis.getTrades(email, 100)
TradesKept       == 1000 \* ltrim(tradesKey, 0, 999)
TTL_DAYS         == 30   \* const TTL_DAYS = 30
LogsKept         == 500  \* ltrim(logsKey, 0, 499)
EventsKept       == 500  \* ltrim(eventsKey, 0, 499)
TradesDefault    == 50   \* req.query.limit absent in GET /api/trades
LogsDefault      == 20   \* req.query.limit absent in GET /api/logs
EventsDefault    == 50   \* req.query.limit absent in GET /api/events

NULL == "null"            \* a missing string
None == [null |-> TRUE]   \* a missing object

States == {"IDLE", "MONITORING", "ANALYZING", "DECIDING", "RISK_CHECK",
           "EXECUTING", "EXPLAINING"}

(* ------------------------------ inputs -------------------------------- *)
Tickers  == {"AAPL"}
Articles == {"u1", "u2"}

\* What a search may return: the articles, and one (u3) that mentions no
\* ticker of the tenant.
Found == Articles \cup {"u3"}

\* NewsArticle fields the code reads.  u1 mentions AAPL in its (short) text;
\* u2 mentions it only in its title.
ArticleScore(u)       == IF u = "u1" THEN 9 ELSE 5
TitleMentions(u, t)   == IF u = "u2" /\ t = "AAPL" THEN 1 ELSE 0
ContentMentions(u, t) == IF u = "u1" /\ t = "AAPL" THEN 5 ELSE 0
ContentLength(u)      == IF u = "u1" THEN 120 ELSE 400

\* What the Reasoning Service may answer; the last is its own fallback.
AnalysisValues ==
  { [impact_score |-> 9, confidence |-> 90, action |-> "buy",  amount_usd |-> 100],
    [impact_score |-> 8, confidence |-> 85, action |-> "sell", amount_usd |-> 100],
    [impact_score |-> 9, confidence |-> 90, action |-> "buy",  amount_usd |-> 50],
    [impact_score |-> 5, confidence |-> 50, action |-> "hold", amount_usd |-> 0] }

GeminiFallback ==
  [impact_score |-> 5, confidence |-> 50, action |-> "hold", amount_usd |-> 0]

InitCash == {1000}
PutCash  == {0}

\* error.message of a call that rejects: any client of a service can time out.
ServiceErrors == {"timeout"}

(* ------------------------- numbers of the store ------------------------ *)
\* avg_price is a quotient of integers; it is kept as a reduced fraction.
\* d = 0 stands for NaN: JSON.stringify writes Infinity and NaN as null and
\* parseFloat(null) is NaN.
RECURSIVE GCD(_, _)
GCD(a, b) == IF b = 0 THEN a ELSE GCD(b, a % b)

NaN == [n |-> 0, d |-> 0]
IsNaN(q) == q.d = 0
Frac(n, d) == IF d = 0 THEN NaN
              ELSE LET g == GCD(n, d) IN [n |-> n \div g, d |-> d \div g]
Whole(n) == [n |-> n, d |-> 1]
FracAdd(p, q) == IF IsNaN(p) \/ IsNaN(q) THEN NaN
                 ELSE Frac(p.n * q.d + q.n * p.d, p.d * q.d)
FracScale(k, q) == IF IsNaN(q) THEN NaN ELSE Frac(k * q.n, q.d)

VARIABLES
  state,            \* AgentOrchestrator.state
  isRunning,        \* AgentOrchestrator.isRunning
  currentNews,      \* the article (url, ticker), or None
  currentAnalysis,  \* analysis record with ticker and news, or None
  currentDecision,  \* decision record, or None
  loops,            \* the run() invocations: pc and locals
  configured,       \* the key portfolio:<email> exists
  cash,             \* portfolio:<email> cash_balance
  holdings,         \* holdings:<email>: ticker -> [shares, avg_price]
  trades,           \* trades:<email>, newest first
  processed,        \* urls marked processed for the tenant
  now,              \* Date.now()
  txSeq,            \* settlement transactions validated so far
  emitted,          \* events appended to this.events by the latest step
  fault,            \* how the latest step's call failed, if it did
  starts, stops, puts, faults,  \* calls made so far
  budget,           \* calls the environment may make in this run
  selectCount,      \* times monitorNews picked each url
  approved,         \* decision the risk check passed in this cycle
  lastExec,         \* the latest completed execution and its change of the stored cash
  agents,           \* server.ts agents: Map email -> orchestrator, in insertion order
  insts,            \* the AgentOrchestrator instances constructed by the server
  reqs,             \* POST /api/agent/start requests in flight
  clients,          \* WebSocket connections: tenant, readyState, messages received
  sig,              \* progress of the SIGINT handler
  lastEmit,         \* instances that emitted in the latest step: to a callback (from)
                    \* or with none registered (lost); whether a callback threw
  history,          \* logs:<email> and events:<email>, newest first
  response,         \* the latest answer of a history route
  expiry,           \* days until Redis expires portfolio:<email> and holdings:<email>
  executor,         \* the stateless AgentExecutor: its tables and its calls in flight
  fleet             \* several tenants side by side: the Redis keyspace, each
                    \* tenant's orchestrator fields, and the tenant that stepped last

vars == <<state, isRunning, currentNews, currentAnalysis, currentDecision,
          loops, configured, cash, holdings, trades, processed, now, txSeq,
          emitted, fault, starts, stops, puts, faults, budget, selectCount,
          approved, lastExec, agents, insts, reqs, clients, sig, lastEmit,
          history, response, expiry, executor, fleet>>

(* ------------------------------ helpers ------------------------------- *)
LoopIds == 1..MaxStarts

\* A run() invocation that is not suspended in any handler.
Fresh == [pc |-> "done", tks |-> {}, news |-> {}, cand |-> <<>>, url |-> NULL,
          ticker |-> NULL, action |-> NULL, amount |-> 0, shares |-> 0,
          sb |-> FALSE, pl |-> FALSE, since |-> 0,
          pcash |-> 0, phold |-> None, hash |-> 0, ts |-> 0,
          delta |-> 0, ok |-> FALSE, wrote |-> FALSE, midStop |-> FALSE]
Asleep == [Fresh EXCEPT !.pc = "sleep"]

StateChange(old, new) ==
  [type |-> "stateChange", oldState |-> old, newState |-> new, data |-> None]
ErrorEvent(s) ==
  [type |-> "error", oldState |-> s, newState |-> NULL, data |-> None]
\* log(message, data) emits the entry as a log event.  The entries modelled
\* are those of the risk result and of the two catch blocks.
LogEvent(message, data) ==
  [type |-> "log", oldState |-> NULL, newState |-> NULL,
   data |-> [message |-> message, data |-> data]]
TradeComplete(news, analysis, decision) ==
  [type |-> "tradeComplete", oldState |-> NULL, newState |-> NULL,
   data |-> [news |-> news, analysis |-> analysis, decision |-> decision]]

\* Array.sort by descending score (|| 0 for a missing score).
RECURSIVE SortByScore(_)
RECURSIVE SortByScoreAscending(_)
SortByScoreAscending(S) ==
  IF S = {} THEN <<>>
  ELSE LET least == CHOOSE u \in S : \A v \in S : ArticleScore(u) <= ArticleScore(v)
       IN <<least>> \o SortByScoreAscending(S \ {least})
SortByScore(S) ==
  IF S = {} THEN <<>>
  ELSE LET best == CHOOSE u \in S : \A v \in S : ArticleScore(u) >= ArticleScore(v)
       IN <<best>> \o SortByScore(S \ {best})

\* TavilyService.filterRelevantNews: title + ' ' + content includes a ticker.
filterRelevantNews(news, tickers) ==
  { u \in news : \E t \in tickers : TitleMentions(u, t) + ContentMentions(u, t) > 0 }

\* AgentOrchestrator.findMostAffectedTicker: most mentions in the content.
findMostAffectedTicker(u, tickers) ==
  LET hit == { t \in tickers : ContentMentions(u, t) > 0 }
  IN IF hit = {} THEN NULL
     ELSE CHOOSE t \in hit : \A o \in hit : ContentMentions(u, t) >= ContentMentions(u, o)

\* The gate at the end of analyzeNews.
GatePasses(a) ==
  /\ a.impact_score >= MinImpact
  /\ a.confidence >= MinConfidence
  /\ a.action # "hold"

\* makeDecision: shares = Math.floor(amount_usd / mockPrice).
\* A decision that buys or sells one share whatever the amount.
DecisionOfOneShare(a) ==
  [action |-> a.action, ticker |-> a.ticker, shares |-> 1,
   amount_usd |-> a.amount_usd, hash |-> 0]

DecisionOf(a) ==
  [action |-> a.action, ticker |-> a.ticker, shares |-> a.amount_usd \div mockPrice,
   amount_usd |-> a.amount_usd, hash |-> 0]

\* shares * avg_price of one holding, and the sum over the portfolio.
HoldingValue(h) == FracScale(h.shares, h.avg_price)
RECURSIVE SumValues(_, _)
SumValues(hs, S) ==
  IF S = {} THEN Whole(0)
  ELSE LET t == CHOOSE x \in S : TRUE
       IN FracAdd(HoldingValue(hs[t]), SumValues(hs, S \ {t}))

\* Check 1 applied to sells as well.
SufficientBalanceAnyAction(action, amount, c) == c >= amount

\* checkRisk, check 1: portfolio.cash_balance >= amount_usd, for a buy.
SufficientBalance(action, amount, c) == action # "buy" \/ c >= amount

\* Check 2 with a strict comparison.
PositionLimitBelow(action, ticker, amount, c, hs) ==
  IF action # "buy" THEN TRUE
  ELSE LET cur   == IF ticker \in DOMAIN hs THEN HoldingValue(hs[ticker]) ELSE Whole(0)
           total == FracAdd(SumValues(hs, DOMAIN hs), Whole(c))
           num   == FracAdd(cur, Whole(amount))
       IN /\ ~IsNaN(total)
          /\ total.n > 0
          /\ num.n * total.d * 100 < PositionLimitPct * total.n * num.d

\* checkRisk, check 2: exposure of the ticker after the buy, at most 30 %.
\* A comparison with NaN is false; a quotient by zero is an infinity or NaN.
PositionLimit(action, ticker, amount, c, hs) ==
  IF action # "buy" THEN TRUE
  ELSE LET cur   == IF ticker \in DOMAIN hs THEN HoldingValue(hs[ticker]) ELSE Whole(0)
           total == FracAdd(SumValues(hs, DOMAIN hs), Whole(c))
           num   == FracAdd(cur, Whole(amount))
       IN IF ~IsNaN(total) /\ total.n > 0
          THEN \* ((cur + amount) / total) * 100 <= 30
               num.n * total.d * 100 <= PositionLimitPct * total.n * num.d
          ELSE \* (amount / (cash + amount)) * 100 <= 30
               LET den == c + amount
               IN CASE den > 0 -> amount * 100 <= PositionLimitPct * den
                    [] den < 0 -> amount * 100 >= PositionLimitPct * den
                    [] OTHER   -> FALSE

\* Redis LRANGE key start stop on a list held newest first: zero-based,
\* both ends included, a negative index counts from the tail (-1 is the last
\* element), an end beyond the list is cut to it.
LRange(list, start, stop) ==
  LET n    == Len(list)
      from == IF start < 0 THEN (IF n + start < 0 THEN 0 ELSE n + start) ELSE start
      to   == IF stop < 0 THEN n + stop ELSE IF stop > n - 1 THEN n - 1 ELSE stop
  IN SubSeq(list, from + 1, to + 1)

\* redis.getTrades(email, limit): lrange 0 .. limit - 1.
getTrades(limit) == LRange(trades, 0, limit - 1)

\* checkRisk, check 3: trades newer than oneDayAgo, fewer than 3.
TodayTrades(read, oneDayAgo) ==
  Cardinality({ i \in 1..Len(read) : read[i].timestamp > oneDayAgo })
\* Check 3 with the limit itself allowed.
DailyTradeLimitAtMost(read, oneDayAgo) == TodayTrades(read, oneDayAgo) <= DailyTradeLimit
DailyTradeLimit3(read, oneDayAgo) == TodayTrades(read, oneDayAgo) < DailyTradeLimit

\* checkRisk: the result object; passed is the conjunction of the three checks.
RiskResult(sb, pl, dtl) ==
  [sufficient_balance |-> sb, position_limit |-> pl, daily_trade_limit |-> dtl,
   passed |-> (sb /\ pl /\ dtl)]

\* The processed-news record of the store: membership and insertion.
hasProcessedNews(url) == url \in processed
markNewsAsProcessed(url) == processed' = processed \cup {url}

\* The decision a risk check was made for.
Triple(action, ticker, amount) ==
  [action |-> action, ticker |-> ticker, amount_usd |-> amount]

(* ------------------------------- Init --------------------------------- *)
\* What the environment does in one run: start() again while an earlier
\* run() is alive, or one run() with a reconfiguration, a failing call and
\* the clock moving.
Budgets ==
  { [starts |-> MaxStarts, stops |-> MaxStops, puts |-> 0, faults |-> 0, ticks |-> 0,
     answers |-> AnalysisValues],
    [starts |-> 1, stops |-> MaxStops, puts |-> MaxPuts, faults |-> MaxFaults,
     ticks |-> MaxTime, answers |-> AnalysisValues] }

\* The ledger left by earlier sessions: two trades at time 0.
PriorTrade == [ticker |-> "AAPL", action |-> "buy", shares |-> 1, price |-> mockPrice,
               timestamp |-> 0, hash |-> 0]
InitTrades == { <<PriorTrade, PriorTrade>> }

NoHoldings == [t \in {} |-> NULL]
InitHoldings == { [t \in {"AAPL"} |-> [shares |-> 1, avg_price |-> Whole(100)]] }

\* The server before any request, connection or signal.
NoInstance == [email |-> NULL, phase |-> "none", hooked |-> FALSE, isRunning |-> FALSE,
               connected |-> FALSE, pc |-> "none"]
NoRequest  == [pc |-> "idle", email |-> NULL, inst |-> 0]
NoClient   == [email |-> NULL, status |-> "none", snap |-> "none", inbox |-> <<>>]
NoEmit     == [from |-> {}, lost |-> {}, threw |-> FALSE]
ServerIdle ==
  /\ agents = <<>>
  /\ insts = [i \in 1..MaxInstances |-> NoInstance]
  /\ reqs = [r \in 1..MaxRequests |-> NoRequest]
  /\ clients = [c \in 1..MaxClients |-> NoClient]
  /\ sig = [pc |-> "idle", idx |-> 0]
  /\ lastEmit = NoEmit

\* The keys of the tenant carry their full time to live; the detailed model's
\* clock stays far below it, so no key expires there.
KeysFresh == expiry = [portfolio |-> TTL_DAYS, holdings |-> TTL_DAYS, created |-> FALSE]

\* An executeCycle call that has not begun: its position, the agent_state
\* row it read, its locals and the number of rows it wrote.
NoCycle == [pc |-> "idle", read |-> None, newState |-> NULL, news |-> FALSE,
            analysis |-> FALSE, decision |-> None, wrote |-> 0]

\* No row of the AgentExecutor's tables, no executeCycle in flight.
ExecutorIdle ==
  executor = [row |-> None, trades |-> 0, debits |-> 0, writes |-> 0, armed |-> 0,
              calls |-> [c \in 1..MaxCycles |-> NoCycle]]

\* No keyspace and no orchestrators of several tenants.
FleetIdle == fleet = [db |-> <<>>, orch |-> <<>>, actor |-> NULL]

\* No history route has answered; the tenant's logs and events are empty.
NoResponse == [route |-> NULL, limit |-> 0, entries |-> <<>>]
ReadsIdle ==
  /\ history = [logs |-> <<>>, events |-> <<>>]
  /\ response = NoResponse

Init ==
  /\ ServerIdle
  /\ KeysFresh
  /\ ExecutorIdle
  /\ FleetIdle
  /\ ReadsIdle
  /\ state = "IDLE"
  /\ isRunning = FALSE
  /\ currentNews = None
  /\ currentAnalysis = None
  /\ currentDecision = None
  /\ loops = [l \in LoopIds |-> Fresh]
  /\ configured = FALSE
  /\ cash = 0
  /\ holdings = NoHoldings
  /\ trades \in InitTrades
  /\ processed = {}
  /\ now = 0
  /\ txSeq = 0
  /\ emitted = <<>>
  /\ fault = "none"
  /\ starts = 0 /\ stops = 0 /\ puts = 0 /\ faults = 0
  /\ budget \in Budgets
  /\ selectCount = [u \in Articles |-> 0]
  /\ approved = None
  /\ lastExec = None

(* ------------------------------ frames -------------------------------- *)
working == <<currentNews, currentAnalysis, currentDecision>>
store   == <<configured, cash, holdings, trades, processed>>
calls   == <<starts, stops, puts, budget>>
ghosts  == <<selectCount, approved, lastExec>>
server  == <<agents, insts, reqs, clients, sig, lastEmit>>
reads   == <<history, response>>
apart   == <<executor, fleet>>
outside == <<server, reads, expiry, apart>>

Quiet == emitted' = <<>> /\ fault' = "none"

\* An injected failure of an external call is counted against MaxFaults.
MayFail == faults < budget.faults

\* The loop returns from its handler and awaits sleep().
ReturnAndLeave(l) == loops' = [loops EXCEPT ![l] = Fresh]
Return(l) == loops' = [loops EXCEPT ![l] = Asleep]

\* setState(newState): the assignment and the stateChange event.  A new
\* cycle (MONITORING) or a stop (IDLE) ends the risk approval of the old one.
setState(new, before) ==
  /\ state' = new
  /\ emitted' = before \o <<StateChange(state, new)>>

\* A run() whose catch gives up: the error event, then the loop is left.
CatchAndLeave(l) ==
  /\ emitted' = <<ErrorEvent(state)>>
  /\ loops' = [loops EXCEPT ![l] = Fresh]
  /\ isRunning' = FALSE
  /\ approved' = None
  /\ UNCHANGED <<state, working, store, now, txSeq, calls, selectCount, lastExec>>

\* The catch of run(): log, error event, setState(MONITORING), sleep(5000).
Catch(l) ==
  /\ setState("MONITORING", <<LogEvent("Error in agent loop", None), ErrorEvent(state)>>)
  /\ Return(l)
  /\ approved' = None
  /\ UNCHANGED <<isRunning, working, store, now, txSeq, calls, selectCount, lastExec>>

\* A rejected call inside a handler that has no catch of its own.
Throws(l) ==
  /\ MayFail
  /\ faults' = faults + 1
  /\ fault' = "thrown"
  /\ Catch(l)

\* The catch of executeTrade: log, setState(MONITORING), working state cleared.
ExecFailed(l, msg) ==
  /\ setState("MONITORING", <<LogEvent("Trade execution failed", [error |-> msg])>>)
  /\ currentNews' = None
  /\ currentAnalysis' = None
  /\ currentDecision' = None
  /\ Return(l)
  /\ approved' = None
  /\ UNCHANGED <<isRunning, now, calls, selectCount, lastExec>>

(* ------------------------ control and environment --------------------- *)
\* POST /api/user/configure: initializePortfolio, once.
PostConfigure ==
  /\ ~configured
  /\ configured' = TRUE
  /\ cash' \in InitCash
  /\ holdings' \in InitHoldings
  /\ Quiet
  /\ UNCHANGED <<state, isRunning, working, loops, trades, processed, now, txSeq,
                 calls, faults, ghosts>>
  /\ UNCHANGED outside

\* PUT /api/user/configure with a cash_balance: updateUserConfig.
PutConfigure ==
  /\ configured
  /\ puts < budget.puts
  /\ puts' = puts + 1
  /\ cash' \in PutCash
  /\ Quiet
  /\ UNCHANGED <<state, isRunning, working, loops, configured, holdings, trades,
                 processed, now, txSeq, starts, stops, faults, budget, ghosts>>
  /\ UNCHANGED outside

\* Time passes.  The unit of the clock is a day: no call of a handler, each
\* with its own timeout, lasts that long, so the clock moves between handlers.
Tick ==
  /\ now < budget.ticks
  /\ \A l \in LoopIds : loops[l].pc \in {"done", "sleep"}
  /\ now' = now + 1
  /\ Quiet
  /\ UNCHANGED <<state, isRunning, working, loops, store, txSeq, calls, faults, ghosts>>
  /\ UNCHANGED outside

\* POST /api/agent/start and AgentOrchestrator.start: the route asks for a
\* configured portfolio; start() returns at once when already running.  run()
\* executes up to its first await: monitorNews, suspended in getPortfolio.
Start ==
  /\ configured
  /\ ~isRunning
  /\ starts < budget.starts
  /\ starts' = starts + 1
  /\ isRunning' = TRUE
  /\ setState("MONITORING", <<>>)
  /\ fault' = "none"
  /\ loops' = [loops EXCEPT ![starts + 1] = [Fresh EXCEPT !.pc = "mon_getPortfolio"]]
  /\ approved' = None
  /\ UNCHANGED <<working, store, now, txSeq, stops, puts, faults, budget, selectCount,
                 lastExec>>
  /\ UNCHANGED outside

\* POST /api/agent/stop and AgentOrchestrator.stop, once an agent exists.
\* A loop whose settlement call is in flight is marked (midStop).
Stop ==
  /\ starts > 0
  /\ stops < budget.stops
  /\ stops' = stops + 1
  /\ isRunning' = FALSE
  /\ setState("IDLE", <<>>)
  /\ fault' = "none"
  /\ approved' = None
  /\ loops' = [l \in LoopIds |-> IF loops[l].pc = "ex_settle"
                                 THEN [loops[l] EXCEPT !.midStop = TRUE]
                                 ELSE loops[l]]
  /\ UNCHANGED <<working, store, now, txSeq, starts, puts, faults, budget,
                 selectCount, lastExec>>
  /\ UNCHANGED outside

(* ------------------------------ run() --------------------------------- *)
\* A guard at the top of a handler found its input missing:
\* setState(MONITORING) and return.
Missing(l) ==
  /\ setState("MONITORING", <<>>)
  /\ Return(l)
  /\ approved' = None
  /\ UNCHANGED working

\* The test of run()'s while loop.
WhileForever == TRUE
WhileRunning == isRunning

\* sleep() resolves: the while test of run(), then the switch on the state and
\* the handler's code up to its first await.
Wake(l) ==
  /\ loops[l].pc = "sleep"
  /\ fault' = "none"
  /\ UNCHANGED <<isRunning, store, now, txSeq, calls, faults, selectCount, lastExec>>
  /\ IF ~WhileRunning
     THEN /\ loops' = [loops EXCEPT ![l] = Fresh]
          /\ emitted' = <<>>
          /\ UNCHANGED <<state, working, approved>>
     ELSE CASE state = "MONITORING" ->
                 /\ loops' = [loops EXCEPT ![l] = [Fresh EXCEPT !.pc = "mon_getPortfolio"]]
                 /\ emitted' = <<>>
                 /\ UNCHANGED <<state, working, approved>>
            [] state = "ANALYZING" ->
                 IF currentNews = None THEN Missing(l)
                 ELSE /\ loops' = [loops EXCEPT ![l] = [Fresh EXCEPT !.pc = "an_getPortfolio"]]
                      /\ emitted' = <<>>
                      /\ UNCHANGED <<state, working, approved>>
            [] state = "DECIDING" ->
                 \* makeDecision has no await
                 IF currentAnalysis = None THEN Missing(l)
                 ELSE /\ currentDecision' = DecisionOf(currentAnalysis)
                      /\ setState("RISK_CHECK", <<>>)
                      /\ Return(l)
                      /\ UNCHANGED <<currentNews, currentAnalysis, approved>>
            [] state = "RISK_CHECK" ->
                 IF currentDecision = None THEN Missing(l)
                 ELSE /\ loops' = [loops EXCEPT ![l] =
                            [Fresh EXCEPT !.pc = "rc_getPortfolio",
                                          !.action = currentDecision.action,
                                          !.ticker = currentDecision.ticker,
                                          !.amount = currentDecision.amount_usd]]
                      /\ emitted' = <<>>
                      /\ UNCHANGED <<state, working, approved>>
            [] state = "EXECUTING" ->
                 \* this.wallet is set by initialize() before any start()
                 IF currentDecision = None THEN Missing(l)
                 ELSE /\ loops' = [loops EXCEPT ![l] =
                            [Fresh EXCEPT !.pc = "ex_settle",
                                          !.action = currentDecision.action,
                                          !.ticker = currentDecision.ticker,
                                          !.shares = currentDecision.shares,
                                          !.amount = currentDecision.amount_usd,
                                          !.ok = (approved = Triple(currentDecision.action,
                                                                    currentDecision.ticker,
                                                                    currentDecision.amount_usd))]]
                      /\ emitted' = <<>>
                      /\ UNCHANGED <<state, working, approved>>
            [] state = "EXPLAINING" ->
                 IF currentNews = None \/ currentAnalysis = None \/ currentDecision = None
                 THEN Missing(l)
                 ELSE /\ loops' = [loops EXCEPT ![l] = [Fresh EXCEPT !.pc = "exp_gemini"]]
                      /\ emitted' = <<>>
                      /\ UNCHANGED <<state, working, approved>>
            [] OTHER ->
                 \* IDLE: sleep(5000), then sleep(1000)
                 /\ loops' = [loops EXCEPT ![l] = Asleep]
                 /\ emitted' = <<>>
                 /\ UNCHANGED <<state, working, approved>>
  /\ UNCHANGED outside

(* --------------------------- monitorNews ------------------------------ *)
\* redis.getPortfolio resolves; tavily.monitorPortfolio(tickers) is called.
MonGetPortfolio(l) ==
  /\ loops[l].pc = "mon_getPortfolio"
  /\ \/ Throws(l)
     \/ /\ fault' = "none"
        /\ emitted' = <<>>
        /\ loops' = [loops EXCEPT ![l] =
              IF configured
              THEN [Fresh EXCEPT !.pc = "mon_search", !.tks = DOMAIN holdings]
              ELSE Asleep]
        /\ UNCHANGED <<state, isRunning, working, store, now, txSeq, calls, faults, ghosts>>
  /\ UNCHANGED outside

\* The search resolves (it returns [] on its own errors and for no tickers);
\* the relevant articles are sorted and the first hasProcessedNews is called.
MonSearch(l) ==
  /\ loops[l].pc = "mon_search"
  /\ \/ /\ \E news \in SUBSET Found :
             /\ loops[l].tks = {} => news = {}
             /\ LET relevantNews == filterRelevantNews(news, loops[l].tks)
                IN loops' = [loops EXCEPT ![l] =
                      IF relevantNews = {} THEN Asleep
                      ELSE [Fresh EXCEPT !.pc = "mon_check",
                                         !.tks = loops[l].tks,
                                         !.news = news,
                                         !.cand = SortByScore(relevantNews)]]
        /\ fault' = "none"
        /\ UNCHANGED faults
     \/ \* the search request fails: searchFinancialNews catches and returns []
        /\ MayFail
        /\ loops[l].tks # {}
        /\ faults' = faults + 1
        /\ fault' = "signal"
        /\ Return(l)
  /\ emitted' = <<>>
  /\ UNCHANGED <<state, isRunning, working, store, now, txSeq, calls, ghosts>>
  /\ UNCHANGED outside

\* hasProcessedNews(article.url) resolves for the next candidate.
MonCheck(l) ==
  /\ loops[l].pc = "mon_check"
  /\ LET article == Head(loops[l].cand)
         rest    == Tail(loops[l].cand)
     IN \/ Throws(l)
        \/ /\ hasProcessedNews(article)
           /\ loops' = [loops EXCEPT ![l] =
                 IF rest = <<>> THEN Asleep ELSE [loops[l] EXCEPT !.cand = rest]]
           /\ Quiet
           /\ UNCHANGED <<state, isRunning, working, store, now, txSeq, calls, faults, ghosts>>
        \/ /\ ~hasProcessedNews(article)
           /\ currentNews' = [url |-> article, ticker |-> NULL]
           /\ selectCount' = [selectCount EXCEPT ![article] = IF @ < 2 THEN @ + 1 ELSE @]
           /\ loops' = [loops EXCEPT ![l] = [Fresh EXCEPT !.pc = "mon_mark", !.url = article]]
           /\ Quiet
           /\ UNCHANGED <<state, isRunning, currentAnalysis, currentDecision, store, now,
                          txSeq, calls, faults, approved, lastExec>>
  /\ UNCHANGED outside

\* markNewsAsProcessed(url) settles; a rejection is only printed.  addNews
\* is called next.
MonMark(l) ==
  /\ loops[l].pc = "mon_mark"
  /\ \/ /\ markNewsAsProcessed(loops[l].url)
        /\ fault' = "none"
        /\ UNCHANGED faults
     \/ /\ MayFail
        /\ faults' = faults + 1
        /\ fault' = "swallowed"
        /\ UNCHANGED processed
  /\ emitted' = <<>>
  /\ loops' = [loops EXCEPT ![l] = [Fresh EXCEPT !.pc = "mon_addNews"]]
  /\ UNCHANGED <<state, isRunning, working, configured, cash, holdings, trades, now,
                 txSeq, calls, ghosts>>
  /\ UNCHANGED outside

\* addNews settles (a rejection is only printed); setState(ANALYZING).
MonAddNews(l) ==
  /\ loops[l].pc = "mon_addNews"
  /\ \/ fault' = "none" /\ UNCHANGED faults
     \/ MayFail /\ faults' = faults + 1 /\ fault' = "swallowed"
  /\ setState("ANALYZING", <<>>)
  /\ Return(l)
  /\ UNCHANGED <<isRunning, working, store, now, txSeq, calls, ghosts>>
  /\ UNCHANGED outside

(* --------------------------- analyzeNews ------------------------------ *)
\* redis.getPortfolio resolves; the affected ticker is found in
\* this.currentNews.content (a TypeError when currentNews is null by now).
AnGetPortfolio(l) ==
  /\ loops[l].pc = "an_getPortfolio"
  /\ \/ Throws(l)
     \/ /\ ~configured
        /\ setState("MONITORING", <<>>)
        /\ currentNews' = None
        /\ Return(l)
        /\ approved' = None
        /\ fault' = "none"
        /\ UNCHANGED <<isRunning, currentAnalysis, currentDecision, store, now, txSeq,
                       calls, faults, selectCount, lastExec>>
     \/ /\ configured
        /\ currentNews = None
        /\ fault' = "thrown"
        /\ Catch(l)
        /\ UNCHANGED faults
     \/ /\ configured
        /\ currentNews # None
        /\ fault' = "none"
        /\ LET affectedTicker == findMostAffectedTicker(currentNews.url, DOMAIN holdings)
           IN IF affectedTicker = NULL
              THEN /\ setState("MONITORING", <<>>)
                   /\ currentNews' = None
                   /\ Return(l)
                   /\ approved' = None
              ELSE /\ currentNews' = [currentNews EXCEPT !.ticker = affectedTicker]
                   /\ loops' = [loops EXCEPT ![l] =
                         [Fresh EXCEPT !.pc = IF ContentLength(currentNews.url) < ShortContent
                                              THEN "an_extract" ELSE "an_gemini",
                                       !.ticker = affectedTicker]]
                   /\ emitted' = <<>>
                   /\ UNCHANGED <<state, approved>>
        /\ UNCHANGED <<isRunning, currentAnalysis, currentDecision, store, now, txSeq,
                       calls, faults, selectCount, lastExec>>
  /\ UNCHANGED outside

\* tavily.extractArticle resolves (null on its own errors); the Reasoning
\* Service is called with the longer text.
AnExtract(l) ==
  /\ loops[l].pc = "an_extract"
  /\ loops' = [loops EXCEPT ![l] = [loops[l] EXCEPT !.pc = "an_gemini"]]
  /\ Quiet
  /\ UNCHANGED <<state, isRunning, working, store, now, txSeq, calls, faults, ghosts>>
  /\ UNCHANGED outside

\* gemini.analyzeNewsImpact resolves (with its fallback on its own errors);
\* the gate decides between DECIDING and MONITORING.
AnGemini(l) ==
  /\ loops[l].pc = "an_gemini"
  /\ \E a \in budget.answers \cup {GeminiFallback}, failed \in BOOLEAN :
       \* the request fails: analyzeNewsImpact catches and returns its fallback
       /\ failed => (MayFail /\ a = GeminiFallback)
       /\ ~failed => a \in budget.answers
       /\ faults' = IF failed THEN faults + 1 ELSE faults
       /\ fault' = IF failed THEN "reasoning" ELSE "none"
       /\ LET analysis == [impact_score |-> a.impact_score, confidence |-> a.confidence,
                        action |-> a.action, amount_usd |-> a.amount_usd,
                        ticker |-> loops[l].ticker,
                        news |-> IF currentNews = None THEN NULL ELSE currentNews.url]
          IN IF GatePasses(a)
             THEN /\ currentAnalysis' = analysis
                  /\ setState("DECIDING", <<>>)
                  /\ UNCHANGED <<currentNews, approved>>
             ELSE /\ setState("MONITORING", <<>>)
                  /\ currentNews' = None
                  /\ currentAnalysis' = None
                  /\ approved' = None
  /\ Return(l)
  /\ UNCHANGED <<isRunning, currentDecision, store, now, txSeq, calls,
                 selectCount, lastExec>>
  /\ UNCHANGED outside

(* ----------------------------- checkRisk ------------------------------ *)
ClearWorking ==
  /\ currentNews' = None
  /\ currentAnalysis' = None
  /\ currentDecision' = None

\* redis.getPortfolio resolves: checks 1 and 2 on that portfolio, oneDayAgo
\* from the clock, and redis.getTrades is called.
RcGetPortfolio(l) ==
  /\ loops[l].pc = "rc_getPortfolio"
  /\ \/ Throws(l)
     \/ /\ ~configured
        /\ setState("MONITORING", <<>>)
        /\ ClearWorking
        /\ Return(l)
        /\ approved' = None
        /\ fault' = "none"
        /\ UNCHANGED <<isRunning, store, now, txSeq, calls, faults, selectCount, lastExec>>
     \/ /\ configured
        /\ loops' = [loops EXCEPT ![l] =
              [loops[l] EXCEPT
                 !.pc = "rc_getTrades",
                 !.sb = SufficientBalance(loops[l].action, loops[l].amount, cash),
                 !.pl = PositionLimit(loops[l].action, loops[l].ticker, loops[l].amount,
                                      cash, holdings),
                 !.since = now - Day]]
        /\ Quiet
        /\ UNCHANGED <<state, isRunning, working, store, now, txSeq, calls, faults, ghosts>>
  /\ UNCHANGED outside

\* redis.getTrades resolves: check 3, the overall result and the transition.
RcGetTrades(l) ==
  /\ loops[l].pc = "rc_getTrades"
  /\ \/ Throws(l)
     \/ /\ LET riskResult == RiskResult(loops[l].sb, loops[l].pl,
                                        DailyTradeLimit3(getTrades(TradesRead),
                                                         loops[l].since))
               entry == LogEvent("Risk check result", riskResult)
           IN IF riskResult.passed
              THEN /\ setState("EXECUTING", <<entry>>)
                   /\ approved' = Triple(loops[l].action, loops[l].ticker, loops[l].amount)
                   /\ UNCHANGED working
              ELSE /\ setState("MONITORING", <<entry>>)
                   /\ ClearWorking
                   /\ approved' = None
        /\ Return(l)
        /\ fault' = "none"
        /\ UNCHANGED <<isRunning, store, now, txSeq, calls, faults, selectCount, lastExec>>
  /\ UNCHANGED outside

(* ---------------------------- executeTrade ---------------------------- *)
\* xrpl.executeTrade settles: a validated transaction and its hash, or an
\* exception for the catch of executeTrade.  redis.getPortfolio is called.
ExSettle(l) ==
  /\ loops[l].pc = "ex_settle"
  /\ \/ /\ MayFail
        /\ faults' = faults + 1
        /\ fault' = "inner"
        /\ \E msg \in ServiceErrors : ExecFailed(l, msg)
        /\ UNCHANGED <<store, txSeq>>
     \/ /\ txSeq' = txSeq + 1
        /\ loops' = [loops EXCEPT ![l] =
              [loops[l] EXCEPT !.pc = "ex_getPortfolio", !.hash = txSeq + 1]]
        /\ Quiet
        /\ UNCHANGED <<state, isRunning, working, store, now, calls, faults, ghosts>>
  /\ UNCHANGED outside

\* redis.getPortfolio resolves: the portfolio the updates are computed from.
\* A sell of more shares than held throws; updatePortfolio is called.
ExGetPortfolio(l) ==
  /\ loops[l].pc = "ex_getPortfolio"
  /\ LET me      == loops[l]
         holding == IF me.ticker \in DOMAIN holdings THEN holdings[me.ticker] ELSE None
         \* !holding || holding.shares < shares
         short   == /\ me.action = "sell"
                    /\ IF holding = None THEN TRUE ELSE holding.shares < me.shares
     IN \/ /\ MayFail
           /\ faults' = faults + 1
           /\ fault' = "inner"
           /\ \E msg \in ServiceErrors : ExecFailed(l, msg)
           /\ UNCHANGED <<store, txSeq>>
        \/ /\ (~configured \/ short)
           /\ fault' = "inner"
           /\ ExecFailed(l, IF ~configured THEN "Portfolio not found"
                            ELSE "Insufficient shares")
           /\ UNCHANGED <<store, txSeq, faults>>
        \/ /\ configured
           /\ ~short
           /\ loops' = [loops EXCEPT ![l] =
                 [me EXCEPT !.pc = IF me.action \in {"buy", "sell"}
                                   THEN "ex_updateCash" ELSE "ex_addTrade",
                            !.pcash = cash, !.phold = holding, !.ts = now]]
           /\ Quiet
           /\ UNCHANGED <<state, isRunning, working, store, now, txSeq, calls, faults, ghosts>>
  /\ UNCHANGED outside

\* redis.updatePortfolio({cash_balance}) settles; the holding call is next.
ExUpdateCash(l) ==
  /\ loops[l].pc = "ex_updateCash"
  /\ LET me == loops[l]
     IN \/ /\ MayFail
           /\ faults' = faults + 1
           /\ fault' = "inner"
           /\ \E msg \in ServiceErrors : ExecFailed(l, msg)
           /\ UNCHANGED <<store, txSeq>>
        \/ /\ cash' = IF me.action = "buy" THEN me.pcash - me.amount
                      ELSE me.pcash + me.amount
           /\ loops' = [loops EXCEPT ![l] = [me EXCEPT !.pc = "ex_holding", !.delta = cash' - cash,
                                                      !.wrote = TRUE]]
           /\ Quiet
           /\ UNCHANGED <<state, isRunning, working, configured, holdings, trades,
                          processed, now, txSeq, calls, faults, ghosts>>
  /\ UNCHANGED outside

\* totalCost / totalShares of a buy into an existing holding.
\* The average cost that forgets the shares already held.
NewAvgPriceOfPurchase(old, shares, amount) ==
  IF shares = 0 THEN NaN ELSE Frac(amount, shares)

NewAvgPrice(old, shares, amount) ==
  LET totalShares == old.shares + shares
      totalCost   == FracAdd(HoldingValue(old), Whole(amount))
  IN IF IsNaN(totalCost) \/ totalShares = 0 THEN NaN
     ELSE Frac(totalCost.n, totalCost.d * totalShares)

\* redis.updateHolding / addHolding / removeHolding settles; addTrade is
\* called and stamps the trade with the clock.
\* A sale that always goes through updateHolding, also when nothing is left.
SoldHoldingKept(hs, ticker, old, sold) ==
  [hs EXCEPT ![ticker] = [shares |-> old.shares - sold, avg_price |-> @.avg_price]]

\* The sell branch of executeTrade: removeHolding when every share the
\* handler read is sold, updateHolding(ticker, shares - sold) otherwise,
\* which keeps the stored avg_price.
SoldHolding(hs, ticker, old, sold) ==
  IF old.shares = sold
  THEN [t \in DOMAIN hs \ {ticker} |-> hs[t]]
  ELSE [hs EXCEPT ![ticker] = [shares |-> old.shares - sold, avg_price |-> @.avg_price]]

ExHolding(l) ==
  /\ loops[l].pc = "ex_holding"
  /\ LET me     == loops[l]
         exists == me.ticker \in DOMAIN holdings
         update == IF me.phold = None THEN FALSE
                   ELSE ~(me.action = "sell" /\ me.phold.shares = me.shares)
         add    == me.action = "buy" /\ me.phold = None
     IN \/ /\ MayFail
           /\ faults' = faults + 1
           /\ fault' = "inner"
           /\ \E msg \in ServiceErrors : ExecFailed(l, msg)
           /\ UNCHANGED <<store, txSeq>>
        \/ \* updateHolding: ticker not found; addHolding: ticker already exists
           /\ (update /\ ~exists) \/ (add /\ exists)
           /\ fault' = "inner"
           /\ ExecFailed(l, IF add THEN "Holding already exists" ELSE "Holding not found")
           /\ UNCHANGED <<store, txSeq, faults>>
        \/ /\ update => exists
           /\ add => ~exists
           /\ holdings' =
                IF add
                  THEN [t \in DOMAIN holdings \cup {me.ticker} |->
                          IF t = me.ticker
                          THEN [shares |-> me.shares, avg_price |-> Whole(mockPrice)]
                          ELSE holdings[t]]
                ELSE IF me.action = "buy"
                  THEN [holdings EXCEPT ![me.ticker] =
                          [shares |-> me.phold.shares + me.shares,
                           avg_price |-> NewAvgPrice(me.phold, me.shares, me.amount)]]
                  ELSE SoldHolding(holdings, me.ticker, me.phold, me.shares)
           /\ loops' = [loops EXCEPT ![l] = [me EXCEPT !.pc = "ex_addTrade", !.ts = now,
                                                      !.wrote = TRUE]]
           /\ Quiet
           /\ UNCHANGED <<state, isRunning, working, configured, cash, trades, processed,
                          now, txSeq, calls, faults, ghosts>>
  /\ UNCHANGED outside

\* redis.addTrade settles (lpush, ltrim); the hash is written into
\* this.currentDecision (a TypeError when it is null by now) and the state
\* becomes EXPLAINING.
ExAddTrade(l) ==
  /\ loops[l].pc = "ex_addTrade"
  /\ LET me    == loops[l]
         trade == [ticker |-> me.ticker, action |-> me.action, shares |-> me.shares,
                   price |-> mockPrice, timestamp |-> me.ts, hash |-> me.hash]
         kept  == LET all == <<trade>> \o trades
                  IN SubSeq(all, 1, IF Len(all) < TradesKept THEN Len(all) ELSE TradesKept)
     IN \/ /\ MayFail
           /\ faults' = faults + 1
           /\ fault' = "inner"
           /\ \E msg \in ServiceErrors : ExecFailed(l, msg)
           /\ UNCHANGED <<store, txSeq>>
        \/ /\ Len(trades) < MaxTrades
           /\ trades' = kept
           /\ UNCHANGED <<configured, cash, holdings, processed, txSeq, faults>>
           /\ IF currentDecision = None
              THEN /\ fault' = "inner"
                   /\ ExecFailed(l, "TypeError")
              ELSE /\ currentDecision' = [currentDecision EXCEPT !.hash = me.hash]
                   /\ setState("EXPLAINING", <<>>)
                   /\ loops' = [loops EXCEPT ![l] = [Asleep EXCEPT !.midStop = me.midStop]]
                   /\ fault' = "none"
                   /\ lastExec' = [action |-> me.action, amount_usd |-> me.amount,
                                   delta |-> me.delta]
                   /\ UNCHANGED <<isRunning, currentNews, currentAnalysis, now, calls,
                                  selectCount, approved>>
  /\ UNCHANGED outside

(* --------------------------- explainDecision -------------------------- *)
\* gemini.explainDecision resolves (with its fallback on its own errors):
\* the tradeComplete event, the working state cleared, MONITORING.
ExpGemini(l) ==
  /\ loops[l].pc = "exp_gemini"
  /\ setState("MONITORING",
              <<TradeComplete(currentNews, currentAnalysis, currentDecision)>>)
  /\ ClearWorking
  /\ Return(l)
  /\ approved' = None
  /\ fault' = "none"
  /\ UNCHANGED <<isRunning, store, now, txSeq, calls, faults, selectCount, lastExec>>
  /\ UNCHANGED outside

(* ------------------------------- Next --------------------------------- *)
Next ==
  \/ PostConfigure
  \/ PutConfigure
  \/ Tick
  \/ Start
  \/ Stop
  \/ \E l \in LoopIds : Wake(l)
  \/ \E l \in LoopIds : MonGetPortfolio(l)
  \/ \E l \in LoopIds : MonSearch(l)
  \/ \E l \in LoopIds : MonCheck(l)
  \/ \E l \in LoopIds : MonMark(l)
  \/ \E l \in LoopIds : MonAddNews(l)
  \/ \E l \in LoopIds : AnGetPortfolio(l)
  \/ \E l \in LoopIds : AnExtract(l)
  \/ \E l \in LoopIds : AnGemini(l)
  \/ \E l \in LoopIds : RcGetPortfolio(l)
  \/ \E l \in LoopIds : RcGetTrades(l)
  \/ \E l \in LoopIds : ExSettle(l)
  \/ \E l \in LoopIds : ExGetPortfolio(l)
  \/ \E l \in LoopIds : ExUpdateCash(l)
  \/ \E l \in LoopIds : ExHolding(l)
  \/ \E l \in LoopIds : ExAddTrade(l)
  \/ \E l \in LoopIds : ExpGemini(l)

Spec == Init /\ [][Next]_vars

(* --------------------- PortfolioService.checkRisk --------------------- *)
\* The file-backed PortfolioService and the orchestrator of src/lib that calls
\* it keep the same fields; its portfolio and tradeHistory are read here from
\* cash, holdings and trades.
FracDiv(p, q) == IF IsNaN(p) \/ IsNaN(q) THEN NaN ELSE Frac(p.n * q.d, p.d * q.n)

getTotalValue(c, hs) == FracAdd(SumValues(hs, DOMAIN hs), Whole(c))

getExposure(ticker, c, hs) ==
  LET totalValue == getTotalValue(c, hs)
  IN IF ticker \notin DOMAIN hs THEN Whole(0)
     ELSE IF ~IsNaN(totalValue) /\ totalValue.n > 0
          THEN FracScale(100, FracDiv(HoldingValue(hs[ticker]), totalValue))
          ELSE Whole(0)

canAffordTrade(amount, c) == c >= amount

PortfolioCheckRisk(action, ticker, amount, c, hs, tradeHistory, t) ==
  LET totalValue  == getTotalValue(c, hs)
      newExposure == IF ~IsNaN(totalValue) /\ totalValue.n > 0
                     THEN FracAdd(getExposure(ticker, c, hs),
                                  FracScale(100, FracDiv(Whole(amount), totalValue)))
                     ELSE IF c + amount = 0 THEN NaN
                     ELSE Frac(100 * amount, c + amount)
      oneDayAgo   == t - Day
      todayTrades == { i \in 1..Len(tradeHistory) : tradeHistory[i].timestamp > oneDayAgo }
  IN RiskResult(action # "buy" \/ canAffordTrade(amount, c),
                action # "buy" \/ (~IsNaN(newExposure)
                                     /\ newExposure.n <= PositionLimitPct * newExposure.d),
                Cardinality(todayTrades) < DailyTradeLimit)

\* checkRisk of the orchestrator of src/lib: no await, one step from the
\* switch of run().
LibCheckRisk(l) ==
  /\ isRunning
  /\ loops[l].pc = "sleep"
  /\ state = "RISK_CHECK"
  /\ currentDecision # None
  /\ LET riskResult == PortfolioCheckRisk(currentDecision.action, currentDecision.ticker,
                                          currentDecision.amount_usd, cash, holdings,
                                          trades, now)
         entry == LogEvent("Risk check result", riskResult)
     IN IF riskResult.passed
        THEN /\ setState("EXECUTING", <<entry>>)
             /\ approved' = Triple(currentDecision.action, currentDecision.ticker,
                                   currentDecision.amount_usd)
             /\ UNCHANGED working
        ELSE /\ setState("MONITORING", <<entry>>)
             /\ ClearWorking
             /\ approved' = None
  /\ Return(l)
  /\ fault' = "none"
  /\ UNCHANGED <<isRunning, store, now, txSeq, calls, faults, selectCount, lastExec>>
  /\ UNCHANGED outside

(* ------------------- the risk gate on given portfolios ----------------- *)
\* A loop about to run checkRisk on a decision, for portfolios and ledgers
\* drawn from small sets.  Amounts are those of the example 300 and 300.01 of
\* 1000, times 100.
RiskAmounts == {30000, 30001, 10000}
RiskCash    == {100000, 50000, 20000, 0}
RiskHoldings ==
  { NoHoldings,
    [t \in {"MSFT"} |-> [shares |-> 500, avg_price |-> Whole(100)]],
    [t \in {"AAPL"} |-> [shares |-> 100, avg_price |-> Whole(100)]],
    [t \in {"AAPL", "MSFT"} |-> [shares |-> 100, avg_price |-> Whole(100)]] }

\* k trades at the present time before m trades of 24 hours ago, newest first.
RiskLedger(k, m) ==
  [i \in 1..(k + m) |-> [PriorTrade EXCEPT !.timestamp = IF i <= k THEN Day ELSE 0]]
RiskLedgers == { RiskLedger(k, m) : k \in 0..MaxTrades, m \in 0..1 }

RiskInit ==
  /\ ServerIdle
  /\ KeysFresh
  /\ ExecutorIdle
  /\ FleetIdle
  /\ ReadsIdle
  /\ state = "RISK_CHECK"
  /\ isRunning = TRUE
  /\ currentNews = [url |-> "u1", ticker |-> "AAPL"]
  /\ \E action \in {"buy", "sell"}, amount \in RiskAmounts :
       /\ currentAnalysis = [impact_score |-> 9, confidence |-> 90, action |-> action,
                             amount_usd |-> amount, ticker |-> "AAPL", news |-> "u1"]
       /\ currentDecision = DecisionOf(currentAnalysis)
  /\ loops = [l \in LoopIds |-> IF l = 1 THEN Asleep ELSE Fresh]
  /\ configured = TRUE
  /\ cash \in RiskCash
  /\ holdings \in RiskHoldings
  /\ trades \in { t \in RiskLedgers : Len(t) <= MaxTrades }
  /\ processed = {"u1"}
  /\ now = Day
  /\ txSeq = 0
  /\ emitted = <<>>
  /\ fault = "none"
  /\ starts = 1 /\ stops = 0 /\ puts = 0 /\ faults = 0
  /\ budget = [starts |-> 1, stops |-> 0, puts |-> 0, faults |-> 0, ticks |-> 0,
               answers |-> AnalysisValues]
  /\ selectCount = [u \in Articles |-> IF u = "u1" THEN 1 ELSE 0]
  /\ approved = None
  /\ lastExec = None

RiskNext ==
  \/ \E l \in LoopIds : Wake(l) /\ state = "RISK_CHECK"
  \/ \E l \in LoopIds : RcGetPortfolio(l)
  \/ \E l \in LoopIds : RcGetTrades(l)
  \/ \E l \in LoopIds : LibCheckRisk(l)

RiskSpec == RiskInit /\ [][RiskNext]_vars

(* ------------------- PortfolioService.executeTrade -------------------- *)
\* PortfolioService.executeTrade(ticker, action, shares, price) on the cash c
\* and holdings hs it keeps: whether it succeeded and what it left.  The
\* amount moved is shares * price.
PortfolioExecuteTrade(ticker, action, shares, price, c, hs) ==
  LET holding == IF ticker \in DOMAIN hs THEN hs[ticker] ELSE None
      amount  == shares * price
  IN IF action = "buy"
     THEN IF ~canAffordTrade(amount, c)
          THEN [ok |-> FALSE, cash |-> c, holdings |-> hs]
          ELSE [ok |-> TRUE, cash |-> c - amount,
                holdings |->
                  IF holding # None
                  THEN [hs EXCEPT ![ticker] =
                          [shares |-> holding.shares + shares,
                           avg_price |-> NewAvgPrice(holding, shares, amount)]]
                  ELSE [t \in DOMAIN hs \cup {ticker} |->
                          IF t = ticker THEN [shares |-> shares, avg_price |-> Whole(price)]
                          ELSE hs[t]]]
     ELSE IF action = "sell"
     THEN IF (IF holding = None THEN TRUE ELSE holding.shares < shares)
          THEN [ok |-> FALSE, cash |-> c, holdings |-> hs]
          ELSE [ok |-> TRUE, cash |-> c + amount,
                holdings |-> SoldHolding(hs, ticker, holding, shares)]
     ELSE [ok |-> TRUE, cash |-> c, holdings |-> hs]

\* executeTrade of lib/agent/orchestrator.ts once the settlement has
\* resolved: the portfolio update, the trade record and the transition run
\* without an await.  The model keeps the ledger newest first.
LibExecuteTrade(l) ==
  /\ loops[l].pc = "ex_getPortfolio"
  /\ Len(trades) < MaxTrades
  /\ currentDecision # None
  /\ LET me  == loops[l]
         res == PortfolioExecuteTrade(me.ticker, me.action, me.shares, mockPrice,
                                      cash, holdings)
     IN IF res.ok
        THEN /\ cash' = res.cash
             /\ holdings' = res.holdings
             /\ trades' = <<[ticker |-> me.ticker, action |-> me.action,
                             shares |-> me.shares, price |-> mockPrice,
                             timestamp |-> now, hash |-> me.hash]>> \o trades
             /\ currentDecision' = [currentDecision EXCEPT !.hash = me.hash]
             /\ setState("EXPLAINING", <<>>)
             /\ Return(l)
             /\ fault' = "none"
             /\ lastExec' = [action |-> me.action, amount_usd |-> me.shares * mockPrice,
                             delta |-> res.cash - cash]
             /\ UNCHANGED <<isRunning, currentNews, currentAnalysis, configured,
                            processed, now, calls, selectCount, approved>>
        ELSE /\ fault' = "inner"
             /\ ExecFailed(l, "Portfolio update failed")
             /\ UNCHANGED store
  /\ UNCHANGED <<txSeq, faults>>
  /\ UNCHANGED outside

(* ------------------ one run() loop on given portfolios ----------------- *)
\* Portfolios and answers of the Reasoning Service for which the trade
\* arithmetic is checked: a single run() loop, no reconfiguration, no
\* failing call.
TradeCash == {10000, 5000}
TradeHoldings ==
  { NoHoldings,
    [t \in {"AAPL"} |-> [shares |-> 10, avg_price |-> Whole(80)]],
    [t \in {"AAPL"} |-> [shares |-> 5,  avg_price |-> Whole(120)]] }
TradeAnswers ==
  { [impact_score |-> 9, confidence |-> 90, action |-> "buy",  amount_usd |-> 1000],
    [impact_score |-> 9, confidence |-> 90, action |-> "buy",  amount_usd |-> 250],
    [impact_score |-> 8, confidence |-> 85, action |-> "sell", amount_usd |-> 1000],
    [impact_score |-> 8, confidence |-> 85, action |-> "sell", amount_usd |-> 500] }

\* A started agent whose run() awaits its sleep, with an empty ledger, the
\* articles in seen already processed, at time t.
Started(c, hs, answers, seen, t) ==
  /\ ServerIdle
  /\ KeysFresh
  /\ ExecutorIdle
  /\ FleetIdle
  /\ ReadsIdle
  /\ state = "MONITORING"
  /\ isRunning = TRUE
  /\ currentNews = None
  /\ currentAnalysis = None
  /\ currentDecision = None
  /\ loops = [l \in LoopIds |-> IF l = 1 THEN Asleep ELSE Fresh]
  /\ configured = TRUE
  /\ cash = c
  /\ holdings = hs
  /\ trades = <<>>
  /\ processed = seen
  /\ now = t
  /\ txSeq = 0
  /\ emitted = <<>>
  /\ fault = "none"
  /\ starts = 1 /\ stops = 0 /\ puts = 0 /\ faults = 0
  /\ budget = [starts |-> 1, stops |-> 0, puts |-> 0, faults |-> 0, ticks |-> 0,
               answers |-> answers]
  /\ selectCount = [u \in Articles |-> 0]
  /\ approved = None
  /\ lastExec = None

TradeInit == \E c \in TradeCash, hs \in TradeHoldings : Started(c, hs, TradeAnswers, {}, 0)

TradeNext ==
  \/ \E l \in LoopIds : Wake(l)
  \/ \E l \in LoopIds : MonGetPortfolio(l)
  \/ \E l \in LoopIds : MonSearch(l)
  \/ \E l \in LoopIds : MonCheck(l)
  \/ \E l \in LoopIds : MonMark(l)
  \/ \E l \in LoopIds : MonAddNews(l)
  \/ \E l \in LoopIds : AnGetPortfolio(l)
  \/ \E l \in LoopIds : AnExtract(l)
  \/ \E l \in LoopIds : AnGemini(l)
  \/ \E l \in LoopIds : RcGetPortfolio(l)
  \/ \E l \in LoopIds : RcGetTrades(l)
  \/ \E l \in LoopIds : ExSettle(l)
  \/ \E l \in LoopIds : ExGetPortfolio(l)
  \/ \E l \in LoopIds : ExUpdateCash(l)
  \/ \E l \in LoopIds : ExHolding(l)
  \/ \E l \in LoopIds : ExAddTrade(l)
  \/ \E l \in LoopIds : ExpGemini(l)
  \/ \E l \in LoopIds : LibExecuteTrade(l)

TradeSpec == TradeInit /\ [][TradeNext]_vars

\* The scenario of the worked example: cash 10000, AAPL 10 shares at 150,
\* the answer {impact 9, buy, confidence 0.9, 500}.
ScenarioCash == 10000
ScenarioHoldings == [t \in {"AAPL"} |-> [shares |-> 10, avg_price |-> Whole(150)]]
ScenarioAnswer ==
  [impact_score |-> 9, confidence |-> 90, action |-> "buy", amount_usd |-> 500]

\* u1 is the relevant unprocessed article; u2, which names no ticker in its
\* text, may or may not have been processed before.
ScenarioInit ==
  \E seen \in SUBSET {"u2"}, t \in 0..MaxTime :
    Started(ScenarioCash, ScenarioHoldings, {ScenarioAnswer}, seen, t)

ScenarioSpec == ScenarioInit /\ [][TradeNext]_vars

(* --------------------------- history reads ---------------------------- *)
\* redis.getLogs(email, limit) and redis.getEvents(email, limit).
getLogs(limit)   == LRange(history.logs, 0, limit - 1)
getEvents(limit) == LRange(history.events, 0, limit - 1)

\* A list of n entries, pushed in the order 1..n, so that n is the newest.
Pushed(n) == [i \in 1..n |-> [id |-> n - i + 1]]
PushedTrades(n) == [i \in 1..n |-> [PriorTrade EXCEPT !.hash = n - i + 1]]

\* The limit a route passes on: parseInt of the query parameter when it is
\* given (the string "0" is truthy), the route's default otherwise.
RouteLimit(given, q, default) == IF given THEN q ELSE default

\* The orchestrator's own fields and the tenant's portfolio keys, which the
\* history routes and the server's registry leave alone.
orchestrator == <<state, isRunning, working, loops, now, txSeq, emitted, fault,
                  calls, faults, ghosts>>
tenant == <<orchestrator, store, expiry, apart>>

\* A configured tenant whose orchestrator of the detailed model is not
\* started, with the given ledger and the given budget of the environment.
Dormant(ledger, b) ==
  /\ state = "IDLE"
  /\ isRunning = FALSE
  /\ currentNews = None
  /\ currentAnalysis = None
  /\ currentDecision = None
  /\ loops = [l \in LoopIds |-> Fresh]
  /\ configured = TRUE
  /\ cash \in InitCash
  /\ holdings = NoHoldings
  /\ trades = ledger
  /\ processed = {}
  /\ now = 0
  /\ txSeq = 0
  /\ emitted = <<>>
  /\ fault = "none"
  /\ starts = 0 /\ stops = 0 /\ puts = 0 /\ faults = 0
  /\ budget = b
  /\ selectCount = [u \in Articles |-> 0]
  /\ approved = None
  /\ lastExec = None

\* redis.addLog and redis.addEvent: lpush, then ltrim to the newest 500.
AddLog ==
  /\ Len(history.logs) < MaxTrades
  /\ history' = [history EXCEPT !.logs =
                   LRange(<<[id |-> Len(@) + 1]>> \o @, 0, LogsKept - 1)]
  /\ UNCHANGED <<tenant, server, response>>

AddEvent ==
  /\ Len(history.events) < MaxTrades
  /\ history' = [history EXCEPT !.events =
                   LRange(<<[id |-> Len(@) + 1]>> \o @, 0, EventsKept - 1)]
  /\ UNCHANGED <<tenant, server, response>>

\* GET /api/trades, /api/logs, /api/events.
GetTradesRoute ==
  /\ \E given \in BOOLEAN, q \in 0..MaxLimit :
       LET limit == RouteLimit(given, q, TradesDefault)
       IN response' = [route |-> "trades", limit |-> limit, entries |-> getTrades(limit)]
  /\ UNCHANGED <<tenant, server, history>>

GetLogsRoute ==
  /\ \E given \in BOOLEAN, q \in 0..MaxLimit :
       LET limit == RouteLimit(given, q, LogsDefault)
       IN response' = [route |-> "logs", limit |-> limit, entries |-> getLogs(limit)]
  /\ UNCHANGED <<tenant, server, history>>

GetEventsRoute ==
  /\ \E given \in BOOLEAN, q \in 0..MaxLimit :
       LET limit == RouteLimit(given, q, EventsDefault)
       IN response' = [route |-> "events", limit |-> limit, entries |-> getEvents(limit)]
  /\ UNCHANGED <<tenant, server, history>>

\* A configured tenant with ledgers of every length up to MaxTrades.
HistoryInit ==
  /\ ServerIdle
  /\ KeysFresh
  /\ ExecutorIdle
  /\ FleetIdle
  /\ response = NoResponse
  /\ history \in [logs : {Pushed(n) : n \in 0..2}, events : {Pushed(n) : n \in 0..2}]
  /\ \E n \in 0..MaxTrades :
       Dormant(PushedTrades(n),
               [starts |-> 0, stops |-> 0, puts |-> 0, faults |-> 0, ticks |-> 0,
                answers |-> AnalysisValues])

HistoryNext ==
  \/ AddLog
  \/ AddEvent
  \/ GetTradesRoute
  \/ GetLogsRoute
  \/ GetEventsRoute

HistorySpec == HistoryInit /\ [][HistoryNext]_vars

(* ------------------- server.ts: registry and observers ----------------- *)
\* Every tenant of this part is configured.  An orchestrator instance is
\* kept by what the server can see of it: its run() loop is a handler with
\* two awaits and the sleep between handlers, its events are one message per
\* step.  At most one run() loop per instance is represented; two loops of
\* one instance are the subject of the detailed model above.
Emails    == {"a", "b"}
InstIds   == 1..MaxInstances
ReqIds    == 1..MaxRequests
ClientIds == 1..MaxClients

\* agents.get(email); 0 when the Map has no entry.
AgentOf(e) ==
  IF \E k \in DOMAIN agents : agents[k].email = e
  THEN agents[CHOOSE k \in DOMAIN agents : agents[k].email = e].inst
  ELSE 0

\* agents.set(email, agent): a replaced key keeps its place in the order.
AgentsSet(e, i) ==
  IF AgentOf(e) # 0
  THEN [k \in DOMAIN agents |-> IF agents[k].email = e THEN [email |-> e, inst |-> i]
                                ELSE agents[k]]
  ELSE Append(agents, [email |-> e, inst |-> i])

\* The messages a connection receives.
AgentEvent(i)   == [type |-> "agent_event", email |-> insts[i].email, inst |-> i]
InitialState(e) == [type |-> "initial_state", email |-> e, inst |-> AgentOf(e)]

Push(inbox, msg) == IF Len(inbox) < MaxInbox THEN Append(inbox, msg) ELSE inbox

\* A broadcast that reaches every open connection, whatever its tenant.
BroadcastToAllClients(cs, e, msg) ==
  [c \in DOMAIN cs |->
     IF cs[c].status = "open" THEN [cs[c] EXCEPT !.inbox = Push(@, msg)] ELSE cs[c]]

\* broadcastToUserClients(email, message): every connection in the tenant's
\* set whose readyState is OPEN.
broadcastToUserClients(cs, e, msg) ==
  [c \in DOMAIN cs |->
     IF cs[c].email = e /\ cs[c].status = "open"
     THEN [cs[c] EXCEPT !.inbox = Push(@, msg)]
     ELSE cs[c]]

\* emitEvent of instance i: its callbacks, which are the server's forwarder
\* once getUserAgent has registered it.
Forward(cs, i) ==
  IF insts[i].hooked THEN broadcastToUserClients(cs, insts[i].email, AgentEvent(i)) ELSE cs

\* Instance i emits and its callbacks return.
Emits(i) ==
  /\ clients' = Forward(clients, i)
  /\ lastEmit' = IF insts[i].hooked THEN [from |-> {i}, lost |-> {}, threw |-> FALSE]
                 ELSE [from |-> {}, lost |-> {i}, threw |-> FALSE]

Silent == lastEmit' = NoEmit

\* The answer of a control route: its HTTP status; seq counts the answers.
NoAnswer == [route |-> NULL, email |-> NULL, status |-> 0, seq |-> 0]
Answer(route, e, status) ==
  [route |-> route, email |-> e, status |-> status, seq |-> response.seq + 1]

\* POST /api/agent/start arrives and awaits redis.hasUserConfig.
ReqStart(r, e) ==
  /\ sig.pc = "idle"
  /\ reqs[r].pc = "idle"
  /\ r <= budget.requests
  /\ e \in budget.asking
  /\ \A q \in ReqIds : q < r => reqs[q].pc # "idle"
  /\ reqs' = [reqs EXCEPT ![r] = [pc |-> "hasConfig", email |-> e, inst |-> 0]]
  /\ Silent
  /\ UNCHANGED <<agents, insts, clients, sig, tenant, reads>>

\* getUserAgent: the lookup.  A cached agent is started unless it is running
\* (400); otherwise a new AgentOrchestrator is constructed and the request
\* awaits its initialize().
ReqGetAgent(r) ==
  /\ reqs[r].pc = "hasConfig"
  /\ LET e == reqs[r].email
         i == AgentOf(e)
     IN IF i # 0
        THEN /\ reqs' = [reqs EXCEPT ![r] = [@ EXCEPT !.pc = "done", !.inst = i]]
             /\ UNCHANGED agents
             /\ IF insts[i].isRunning
                THEN /\ Silent
                     /\ response' = Answer("start", e, 400)
                     /\ UNCHANGED <<insts, clients>>
                ELSE /\ insts' = [insts EXCEPT ![i] =
                           [@ EXCEPT !.isRunning = TRUE,
                                     !.pc = IF @ \in {"none", "done"} THEN "await1" ELSE @]]
                     /\ response' = Answer("start", e, 200)
                     /\ Emits(i)
        ELSE /\ \E j \in InstIds :
                  /\ insts[j].phase = "none"
                  /\ \A k \in InstIds : k < j => insts[k].phase # "none"
                  /\ insts' = [insts EXCEPT ![j] = [NoInstance EXCEPT !.email = e,
                                                                      !.phase = "init"]]
                  /\ reqs' = [reqs EXCEPT ![r] = [@ EXCEPT !.pc = "connect", !.inst = j]]
             /\ Silent
             /\ UNCHANGED <<agents, clients, response>>
  /\ UNCHANGED <<sig, tenant, history>>

\* initialize(): xrpl.connect() and the wallet call resolve; the log events
\* of initialize() go to no callback, none being registered yet.
ReqInitWallet(r) ==
  /\ reqs[r].pc = "connect"
  /\ insts' = [insts EXCEPT ![reqs[r].inst] = [@ EXCEPT !.connected = TRUE]]
  /\ reqs' = [reqs EXCEPT ![r] = [@ EXCEPT !.pc = "init"]]
  /\ lastEmit' = [from |-> {}, lost |-> {reqs[r].inst}, threw |-> FALSE]
  /\ UNCHANGED <<agents, clients, sig, tenant, reads>>

\* initialize() resolves, its last log events again going to no callback;
\* the forwarder is registered, the agent cached, and the route starts it:
\* start() emits to the forwarder and run() enters its first handler.
ReqInitDone(r) ==
  /\ reqs[r].pc = "init"
  /\ LET i == reqs[r].inst
         e == reqs[r].email
     IN /\ insts' = [insts EXCEPT ![i] = [@ EXCEPT !.phase = "ready", !.hooked = TRUE,
                                                   !.connected = TRUE, !.isRunning = TRUE,
                                                   !.pc = "await1"]]
        /\ agents' = AgentsSet(e, i)
        /\ clients' = broadcastToUserClients(clients, e, AgentEvent(i))
        /\ lastEmit' = [from |-> {i}, lost |-> {i}, threw |-> FALSE]
        /\ response' = Answer("start", e, 200)
  /\ reqs' = [reqs EXCEPT ![r] = [@ EXCEPT !.pc = "done"]]
  /\ UNCHANGED <<sig, tenant, history>>

\* POST /api/agent/stop: 400 when the Map has no agent of the tenant;
\* otherwise agent.stop() and success.  The route has no await.
ReqStop(e) ==
  /\ budget.stops
  /\ response.seq < MaxAnswers
  /\ e \in budget.asking
  /\ LET i == AgentOf(e)
     IN IF i = 0
        THEN /\ response' = Answer("stop", e, 400)
             /\ Silent
             /\ UNCHANGED <<insts, clients>>
        ELSE /\ insts' = [insts EXCEPT ![i] = [@ EXCEPT !.isRunning = FALSE]]
             /\ Emits(i)
             /\ response' = Answer("stop", e, 200)
  /\ UNCHANGED <<agents, reqs, sig, tenant, history>>

\* run(): sleep() resolves; the loop ends when isRunning is false, else the
\* next handler starts, logs and awaits its first call.
InstWake(i) ==
  /\ insts[i].pc = "sleep"
  /\ IF insts[i].isRunning
     THEN /\ insts' = [insts EXCEPT ![i] = [@ EXCEPT !.pc = "await1"]]
          /\ Emits(i)
     ELSE /\ insts' = [insts EXCEPT ![i] = [@ EXCEPT !.pc = "done"]]
          /\ Silent
          /\ UNCHANGED clients
  /\ UNCHANGED <<agents, reqs, sig, tenant, reads>>

\* The handler's first call resolves; it logs and makes its next external
\* call.  If the callback throws out of emitEvent, the handler is left for
\* the catch of run(), which logs: a callback that throws again rejects
\* run(), and start()'s catch clears isRunning.
InstCall(i) ==
  /\ insts[i].pc = "await1"
  /\ \/ /\ insts' = [insts EXCEPT ![i] = [@ EXCEPT !.pc = "await2"]]
        /\ Emits(i)
     \/ /\ insts[i].hooked
        /\ budget.throws
        /\ \E again \in BOOLEAN :
             insts' = [insts EXCEPT ![i] =
                         IF again THEN [@ EXCEPT !.pc = "done", !.isRunning = FALSE]
                         ELSE [@ EXCEPT !.pc = "sleep"]]
        /\ lastEmit' = [from |-> {i}, lost |-> {}, threw |-> TRUE]
        /\ UNCHANGED clients
  /\ UNCHANGED <<agents, reqs, sig, tenant, reads>>

\* The handler's last call resolves; setState emits and run() sleeps.
InstReturn(i) ==
  /\ insts[i].pc = "await2"
  /\ insts' = [insts EXCEPT ![i] = [@ EXCEPT !.pc = "sleep"]]
  /\ Emits(i)
  /\ UNCHANGED <<agents, reqs, sig, tenant, reads>>

\* wss.on('connection'): the socket joins the tenant's set; when the tenant
\* has an agent, the snapshot waits for agent.getPortfolio().
Connect(c, e) ==
  /\ clients[c].status = "none"
  /\ c <= budget.observers
  /\ e \in budget.watching
  /\ \A d \in ClientIds : d < c => clients[d].status # "none"
  /\ clients' = [clients EXCEPT ![c] =
                   [email |-> e, status |-> "open",
                    snap |-> IF AgentOf(e) # 0 THEN "pending" ELSE "none",
                    inbox |-> <<>>]]
  /\ Silent
  /\ UNCHANGED <<agents, insts, reqs, sig, tenant, reads>>

\* agent.getPortfolio() resolves and the initial_state is sent; on a socket
\* that is no longer open the send fails and the error is logged.
SendInitialState(c) ==
  /\ clients[c].snap = "pending"
  /\ clients' = [clients EXCEPT ![c] =
                   [@ EXCEPT !.snap = "sent",
                             !.inbox = IF clients[c].status = "open"
                                       THEN Push(@, InitialState(clients[c].email))
                                       ELSE @]]
  /\ Silent
  /\ UNCHANGED <<agents, insts, reqs, sig, tenant, reads>>

\* The socket leaves OPEN; later its close handler deletes it from the set.
Close(c) ==
  /\ clients[c].status = "open"
  /\ clients' = [clients EXCEPT ![c] = [@ EXCEPT !.status = "closing"]]
  /\ Silent
  /\ UNCHANGED <<agents, insts, reqs, sig, tenant, reads>>

OnClose(c) ==
  /\ clients[c].status = "closing"
  /\ clients' = [clients EXCEPT ![c] = [@ EXCEPT !.status = "closed"]]
  /\ Silent
  /\ UNCHANGED <<agents, insts, reqs, sig, tenant, reads>>

\* agent.shutdown() up to its await: stop() clears isRunning and emits.
ShutdownBegins(k) ==
  LET i == agents[k].inst
  IN /\ insts' = [insts EXCEPT ![i] = [@ EXCEPT !.isRunning = FALSE]]
     /\ Emits(i)
     /\ sig' = [pc |-> "disconnect", idx |-> k]

\* SIGINT: the handler enters its loop over agents.entries().
Sigint ==
  /\ sig.pc = "idle"
  /\ budget.signals
  /\ IF Len(agents) >= 1
     THEN ShutdownBegins(1)
     ELSE /\ sig' = [pc |-> "redis", idx |-> 0]
          /\ Silent
          /\ UNCHANGED <<insts, clients>>
  /\ UNCHANGED <<agents, reqs, tenant, reads>>

\* xrpl.disconnect() of the agent being shut down resolves; shutdown() logs
\* and the loop goes on to the next entry of the Map, or to
\* redis.disconnect().
Disconnected ==
  /\ sig.pc = "disconnect"
  /\ LET i == agents[sig.idx].inst
         released == [insts EXCEPT ![i] = [@ EXCEPT !.connected = FALSE]]
         told == Forward(clients, i)
     IN IF sig.idx < Len(agents)
        THEN LET j == agents[sig.idx + 1].inst
             IN /\ insts' = [released EXCEPT ![j] = [@ EXCEPT !.isRunning = FALSE]]
                /\ clients' = IF insts[j].hooked
                              THEN broadcastToUserClients(told, insts[j].email, AgentEvent(j))
                              ELSE told
                /\ lastEmit' = [from |-> {k \in {i, j} : insts[k].hooked},
                                lost |-> {k \in {i, j} : ~insts[k].hooked},
                                threw |-> FALSE]
                /\ sig' = [pc |-> "disconnect", idx |-> sig.idx + 1]
        ELSE /\ insts' = released
             /\ clients' = told
             /\ lastEmit' = IF insts[i].hooked
                            THEN [from |-> {i}, lost |-> {}, threw |-> FALSE]
                            ELSE [from |-> {}, lost |-> {i}, threw |-> FALSE]
             /\ sig' = [pc |-> "redis", idx |-> 0]
  /\ UNCHANGED <<agents, reqs, tenant, reads>>

\* redis.disconnect() resolves and server.close() is called: the handler
\* has completed.
SigintDone ==
  /\ sig.pc = "redis"
  /\ sig' = [pc |-> "done", idx |-> 0]
  /\ Silent
  /\ UNCHANGED <<agents, insts, reqs, clients, tenant, reads>>

\* What the environment does in one run of the server: concurrent start
\* requests of one tenant with one observer, a SIGINT and a failing
\* callback; or one start request with observers of two tenants; or start
\* and stop requests of one tenant.
ServerBudgets ==
  { [requests |-> MaxRequests, asking |-> {"a"}, observers |-> 1, watching |-> {"a"},
     signals |-> TRUE, throws |-> TRUE, stops |-> FALSE],
    [requests |-> 1, asking |-> {"a"}, observers |-> MaxClients, watching |-> Emails,
     signals |-> FALSE, throws |-> FALSE, stops |-> FALSE],
    [requests |-> MaxRequests, asking |-> {"a"}, observers |-> 1, watching |-> {"a"},
     signals |-> FALSE, throws |-> FALSE, stops |-> TRUE] }

ServerInit ==
  /\ ServerIdle
  /\ KeysFresh
  /\ ExecutorIdle
  /\ FleetIdle
  /\ history = [logs |-> <<>>, events |-> <<>>]
  /\ response = NoAnswer
  /\ \E b \in ServerBudgets : Dormant(<<>>, b)

ServerNext ==
  \/ \E r \in ReqIds, e \in Emails : ReqStart(r, e)
  \/ \E r \in ReqIds : ReqGetAgent(r)
  \/ \E r \in ReqIds : ReqInitWallet(r)
  \/ \E r \in ReqIds : ReqInitDone(r)
  \/ \E e \in Emails : ReqStop(e)
  \/ \E i \in InstIds : InstWake(i)
  \/ \E i \in InstIds : InstCall(i)
  \/ \E i \in InstIds : InstReturn(i)
  \/ \E c \in ClientIds, e \in Emails : Connect(c, e)
  \/ \E c \in ClientIds : SendInitialState(c)
  \/ \E c \in ClientIds : Close(c)
  \/ \E c \in ClientIds : OnClose(c)
  \/ Sigint
  \/ Disconnected
  \/ SigintDone

ServerSpec == ServerInit /\ [][ServerNext]_vars

(* ------------------------- expiry of the keys -------------------------- *)
\* redis.initializePortfolio: the portfolio hash is written and given its
\* TTL; the holdings hash exists, with its own TTL, when holdings are given.
InitializePortfolio ==
  /\ ~configured
  /\ \E c \in InitCash, hs \in InitHoldings \cup {NoHoldings} :
       /\ configured' = TRUE
       /\ cash' = c
       /\ holdings' = hs
       /\ expiry' = [portfolio |-> TTL_DAYS,
                     holdings |-> IF hs = NoHoldings THEN 0 ELSE TTL_DAYS,
                     created |-> TRUE]
  /\ UNCHANGED <<orchestrator, trades, processed, apart, server, reads>>

\* redis.getPortfolio: null when the portfolio hash is missing or empty;
\* otherwise both keys get their TTL again and the portfolio is returned.
GetPortfolio ==
  /\ response' = [route |-> "portfolio", limit |-> 0,
                  entries |-> IF configured
                              THEN <<[cash_balance |-> cash, holdings |-> holdings]>>
                              ELSE <<>>]
  /\ expiry' = IF configured
               THEN [expiry EXCEPT !.portfolio = TTL_DAYS,
                                   !.holdings = IF holdings = NoHoldings THEN 0 ELSE TTL_DAYS]
               ELSE expiry
  /\ UNCHANGED <<orchestrator, store, apart, server, history>>

\* A day passes without any access: Redis deletes a key whose TTL has run out.
DayPasses ==
  /\ configured
  /\ LET p == expiry.portfolio - 1
         h == IF expiry.holdings > 0 THEN expiry.holdings - 1 ELSE 0
     IN /\ expiry' = [expiry EXCEPT !.portfolio = p, !.holdings = h]
        /\ configured' = (p > 0)
        /\ holdings' = IF h > 0 THEN holdings ELSE NoHoldings
        /\ UNCHANGED cash
  /\ UNCHANGED <<orchestrator, trades, processed, apart, server, reads>>

\* An unconfigured tenant.
ExpiryInit ==
  /\ ServerIdle
  /\ KeysFresh
  /\ ExecutorIdle
  /\ FleetIdle
  /\ ReadsIdle
  /\ state = "IDLE"
  /\ isRunning = FALSE
  /\ currentNews = None
  /\ currentAnalysis = None
  /\ currentDecision = None
  /\ loops = [l \in LoopIds |-> Fresh]
  /\ configured = FALSE
  /\ cash = 0
  /\ holdings = NoHoldings
  /\ trades = <<>>
  /\ processed = {}
  /\ now = 0
  /\ txSeq = 0
  /\ emitted = <<>>
  /\ fault = "none"
  /\ starts = 0 /\ stops = 0 /\ puts = 0 /\ faults = 0
  /\ budget = [starts |-> 0, stops |-> 0, puts |-> 0, faults |-> 0, ticks |-> 0,
               answers |-> AnalysisValues]
  /\ selectCount = [u \in Articles |-> 0]
  /\ approved = None
  /\ lastExec = None

ExpiryNext ==
  \/ InitializePortfolio
  \/ GetPortfolio
  \/ DayPasses

ExpirySpec == ExpiryInit /\ [][ExpiryNext]_vars

(* ------------------------ tenants side by side ------------------------- *)
\* The Redis keys of a tenant: a fixed prefix followed by the email.
portfolioKey(email) == "portfolio:" \o email
holdingsKey(email)  == "holdings:" \o email
TradesKeyOfAll(email) == "trades:" \o "a"
tradesKey(email)    == "trades:" \o email
processedKey(email) == "processed:" \o email

\* The analyses the tenants' orchestrators receive.
FleetAnswers ==
  { [action |-> "buy", amount_usd |-> 100], [action |-> "sell", amount_usd |-> 100],
    [action |-> "hold", amount_usd |-> 0] }

\* What one tenant's keys and orchestrator hold.
Shard(e) ==
  [portfolio |-> fleet.db["portfolio:" \o e], holdings |-> fleet.db["holdings:" \o e],
   trades |-> fleet.db["trades:" \o e], processed |-> fleet.db["processed:" \o e],
   agent |-> fleet.orch[e]]

\* A new AgentOrchestrator: the field initializers.
NewOrchestrator ==
  [state |-> "IDLE", isRunning |-> FALSE, currentNews |-> NULL,
   currentAnalysis |-> None, currentDecision |-> None, events |-> <<>>]

\* emitEvent on this.events: push, and shift beyond the buffer's length.
Buffered(events, types) ==
  LET all == events \o types
  IN IF Len(all) > MaxBuffer THEN SubSeq(all, Len(all) - MaxBuffer + 1, Len(all)) ELSE all

\* setState(s) of tenant e's orchestrator with the working state w: the log
\* of the transition and the stateChange event go to the tenant's buffer.
Moves(e, s, w) ==
  [fleet.orch EXCEPT ![e] =
     [@ EXCEPT !.state = s,
               !.currentNews = w.news, !.currentAnalysis = w.analysis,
               !.currentDecision = w.decision,
               !.events = Buffered(@, <<"log", "stateChange">>)]]

Holds(e) ==
  [news |-> fleet.orch[e].currentNews, analysis |-> fleet.orch[e].currentAnalysis,
   decision |-> fleet.orch[e].currentDecision]
Cleared == [news |-> NULL, analysis |-> None, decision |-> None]

\* The single tenant of the detailed model, the server and the executor.
single == <<orchestrator, store, expiry, executor, server, reads>>

\* One step of tenant e: the keyspace and the orchestrators after it.
Steps(e, db, orch) == fleet' = [db |-> db, orch |-> orch, actor |-> e]

Handles(e, s) == fleet.orch[e].isRunning /\ fleet.orch[e].state = s

\* start() and stop() of tenant e's orchestrator.
FleetStart(e) ==
  /\ ~fleet.orch[e].isRunning
  /\ Steps(e, fleet.db,
           [Moves(e, "MONITORING", Holds(e)) EXCEPT ![e] = [@ EXCEPT !.isRunning = TRUE]])
  /\ UNCHANGED single

FleetStop(e) ==
  /\ fleet.orch[e].isRunning
  /\ Steps(e, fleet.db,
           [Moves(e, "IDLE", Holds(e)) EXCEPT ![e] = [@ EXCEPT !.isRunning = FALSE]])
  /\ UNCHANGED single

\* monitorNews of tenant e: the portfolio is read under the tenant's key;
\* the search offers an article or none; an article not yet in the tenant's
\* processed set is marked there and becomes currentNews.
FleetMonitor(e) ==
  /\ Handles(e, "MONITORING")
  /\ \E url \in Articles \cup {NULL} :
       IF /\ fleet.db[portfolioKey(e)] # None
          /\ url # NULL
          /\ url \notin fleet.db[processedKey(e)]
       THEN Steps(e, [fleet.db EXCEPT ![processedKey(e)] = @ \cup {url}],
                  Moves(e, "ANALYZING", [Holds(e) EXCEPT !.news = url]))
       ELSE Steps(e, fleet.db,
                  [fleet.orch EXCEPT ![e] =
                     [@ EXCEPT !.events = Buffered(@, <<"log">>)]])
  /\ UNCHANGED single

\* analyzeNews of tenant e: back to MONITORING without an article, without a
\* portfolio or without an affected ticker; otherwise the analysis is kept
\* and leads to DECIDING when it is significant and not a hold.
FleetAnalyze(e) ==
  /\ Handles(e, "ANALYZING")
  /\ LET w == Holds(e)
     IN IF w.news = NULL
        THEN Steps(e, fleet.db, Moves(e, "MONITORING", w))
        ELSE IF fleet.db[portfolioKey(e)] = None \/ fleet.db[holdingsKey(e)] = 0
        THEN Steps(e, fleet.db, Moves(e, "MONITORING", [w EXCEPT !.news = NULL]))
        ELSE \E a \in FleetAnswers :
               IF a.action # "hold"
               THEN Steps(e, fleet.db, Moves(e, "DECIDING", [w EXCEPT !.analysis = a]))
               ELSE Steps(e, fleet.db,
                          Moves(e, "MONITORING", [w EXCEPT !.news = NULL, !.analysis = None]))
  /\ UNCHANGED single

\* makeDecision of tenant e.
FleetDecide(e) ==
  /\ Handles(e, "DECIDING")
  /\ LET w == Holds(e)
     IN IF w.analysis = None
        THEN Steps(e, fleet.db, Moves(e, "MONITORING", w))
        ELSE Steps(e, fleet.db,
                   Moves(e, "RISK_CHECK",
                         [w EXCEPT !.decision =
                            [action |-> w.analysis.action,
                             shares |-> w.analysis.amount_usd \div mockPrice,
                             amount_usd |-> w.analysis.amount_usd]]))
  /\ UNCHANGED single

\* checkRisk of tenant e, on the tenant's portfolio and ledger; each share
\* of the tenant's holding was bought at the reference price.
FleetRiskPassed(e, d) ==
  LET cash_balance == fleet.db[portfolioKey(e)].cash_balance
      held == fleet.db[holdingsKey(e)] * mockPrice
  IN /\ d.action = "buy" =>
          /\ cash_balance >= d.amount_usd
          /\ IF held + cash_balance > 0
             THEN (held + d.amount_usd) * 100 <= PositionLimitPct * (held + cash_balance)
             ELSE 100 <= PositionLimitPct
     /\ Len(fleet.db[tradesKey(e)]) < DailyTradeLimit

FleetRisk(e) ==
  /\ Handles(e, "RISK_CHECK")
  /\ LET w == Holds(e)
     IN IF w.decision = None
        THEN Steps(e, fleet.db, Moves(e, "MONITORING", w))
        ELSE IF fleet.db[portfolioKey(e)] = None
        THEN Steps(e, fleet.db, Moves(e, "MONITORING", Cleared))
        ELSE IF FleetRiskPassed(e, w.decision)
        THEN Steps(e, fleet.db, Moves(e, "EXECUTING", w))
        ELSE Steps(e, fleet.db, Moves(e, "MONITORING", Cleared))
  /\ UNCHANGED single

\* executeTrade of tenant e: after the settlement the cash, the holding and
\* the ledger are written under the tenant's keys; a failure clears the
\* working state.
FleetExecute(e) ==
  /\ Handles(e, "EXECUTING")
  /\ LET w == Holds(e)
         d == w.decision
         p == fleet.db[portfolioKey(e)]
         h == fleet.db[holdingsKey(e)]
     IN IF d = None
        THEN Steps(e, fleet.db, Moves(e, "MONITORING", w))
        ELSE \E settled \in BOOLEAN :
               IF ~settled \/ p = None \/ (d.action = "sell" /\ h < d.shares)
               THEN Steps(e, fleet.db, Moves(e, "MONITORING", Cleared))
               ELSE Steps(e,
                          [fleet.db EXCEPT
                             ![portfolioKey(e)] =
                                [cash_balance |-> IF d.action = "buy"
                                                  THEN p.cash_balance - d.amount_usd
                                                  ELSE p.cash_balance + d.amount_usd],
                             ![holdingsKey(e)] =
                                IF d.action = "buy" THEN h + d.shares ELSE h - d.shares,
                             ![tradesKey(e)] =
                                <<[action |-> d.action, shares |-> d.shares]>> \o @],
                          Moves(e, "EXPLAINING", w))
  /\ UNCHANGED single

\* explainDecision of tenant e: the tradeComplete event, then the reset.
FleetExplain(e) ==
  /\ Handles(e, "EXPLAINING")
  /\ LET w == Holds(e)
     IN IF w.news = NULL \/ w.analysis = None \/ w.decision = None
        THEN Steps(e, fleet.db, Moves(e, "MONITORING", w))
        ELSE Steps(e, fleet.db,
                   [Moves(e, "MONITORING", Cleared) EXCEPT ![e] =
                      [@ EXCEPT !.events =
                         Buffered(fleet.orch[e].events,
                                  <<"tradeComplete", "log", "stateChange">>)]])
  /\ UNCHANGED single

\* The catch of run(): a handler of tenant e threw.
FleetCatch(e) ==
  /\ fleet.orch[e].isRunning
  /\ fleet.orch[e].state \in {"MONITORING", "ANALYZING", "RISK_CHECK", "EXPLAINING"}
  /\ Steps(e, fleet.db,
           [Moves(e, "MONITORING", Holds(e)) EXCEPT ![e] =
              [@ EXCEPT !.events =
                 Buffered(fleet.orch[e].events, <<"log", "error", "log", "stateChange">>)]])
  /\ UNCHANGED single

\* The keyspace of the tenants: every tenant configured or not, with a
\* holding of two shares, an empty ledger and an empty processed set.
KeyPrefixes == {"portfolio:", "holdings:", "trades:", "processed:"}
FleetKeys(ps) ==
  [k \in {p \o e : p \in KeyPrefixes, e \in Emails} |->
     LET at == CHOOSE x \in KeyPrefixes \X Emails : x[1] \o x[2] = k
     IN IF at[1] = "portfolio:" THEN ps[at[2]]
        ELSE IF at[1] = "holdings:" THEN 2
        ELSE IF at[1] = "trades:" THEN <<>>
        ELSE {}]

FleetInit ==
  /\ ServerIdle
  /\ KeysFresh
  /\ ExecutorIdle
  /\ ReadsIdle
  /\ Dormant(<<>>, CHOOSE b \in ServerBudgets : b.stops)
  /\ \E ps \in [Emails -> {None, [cash_balance |-> 1000]}] :
       fleet = [db |-> FleetKeys(ps), orch |-> [e \in Emails |-> NewOrchestrator],
                actor |-> NULL]

FleetNext ==
  \/ \E e \in Emails : FleetStart(e)
  \/ \E e \in Emails : FleetStop(e)
  \/ \E e \in Emails : FleetMonitor(e)
  \/ \E e \in Emails : FleetAnalyze(e)
  \/ \E e \in Emails : FleetDecide(e)
  \/ \E e \in Emails : FleetRisk(e)
  \/ \E e \in Emails : FleetExecute(e)
  \/ \E e \in Emails : FleetExplain(e)
  \/ \E e \in Emails : FleetCatch(e)

FleetSpec == FleetInit /\ [][FleetNext]_vars

(* --------------------------- progress of run() ------------------------- *)
\* One step of a run() loop: its timer fires, or the call it awaits returns
\* or throws.
LoopStep(l) ==
  \/ Wake(l)
  \/ MonGetPortfolio(l) \/ MonSearch(l) \/ MonCheck(l) \/ MonMark(l) \/ MonAddNews(l)
  \/ AnGetPortfolio(l) \/ AnExtract(l) \/ AnGemini(l)
  \/ RcGetPortfolio(l) \/ RcGetTrades(l)
  \/ ExSettle(l) \/ ExGetPortfolio(l) \/ ExUpdateCash(l) \/ ExHolding(l) \/ ExAddTrade(l)
  \/ ExpGemini(l)

\* A started agent whose run() awaits its sleep; one call may fail and the
\* agent may be stopped.
CycleInit ==
  /\ ServerIdle
  /\ KeysFresh
  /\ ExecutorIdle
  /\ FleetIdle
  /\ ReadsIdle
  /\ state = "MONITORING"
  /\ isRunning = TRUE
  /\ currentNews = None
  /\ currentAnalysis = None
  /\ currentDecision = None
  /\ loops = [l \in LoopIds |-> IF l = 1 THEN Asleep ELSE Fresh]
  /\ configured = TRUE
  /\ cash \in InitCash
  /\ holdings \in InitHoldings
  /\ trades = <<>>
  /\ processed = {}
  /\ now = 0
  /\ txSeq = 0
  /\ emitted = <<>>
  /\ fault = "none"
  /\ starts = 1 /\ stops = 0 /\ puts = 0 /\ faults = 0
  /\ budget = [starts |-> 1, stops |-> MaxStops, puts |-> 0, faults |-> MaxFaults,
               ticks |-> 0, answers |-> AnalysisValues]
  /\ selectCount = [u \in Articles |-> 0]
  /\ approved = None
  /\ lastExec = None

CycleNext ==
  \/ Stop
  \/ \E l \in LoopIds : LoopStep(l)

\* Timers fire and every external call settles: a loop that can step does.
LiveSpec == CycleInit /\ [][CycleNext]_vars /\ \A l \in LoopIds : WF_vars(LoopStep(l))

(* ------------------------- stateless AgentExecutor --------------------- *)
\* The states the executor's switch handles, and the decisions
\* gemini.makeDecision may return.
ExecStates == {"IDLE", "SEARCHING", "ANALYZING", "DECIDING", "EXECUTING"}
ExecDecisions ==
  { [action |-> "buy", shares |-> 2, price |-> mockPrice],
    [action |-> "sell", shares |-> 1, price |-> mockPrice],
    [action |-> "hold", shares |-> 0, price |-> mockPrice] }

\* The orchestrator, the server and the tenants side by side.
others == <<orchestrator, store, expiry, fleet, server, reads>>

Cycles == 1..MaxCycles
Cycle(c) == executor.calls[c]

\* Call c goes on with the record me, having written n rows.
Goes(c, me, n) ==
  [executor EXCEPT !.calls[c] = [me EXCEPT !.wrote = @ + n], !.writes = @ + n]

\* POST /api/agent/execute: executeCycle is called and awaits its select of
\* the agent_state row.
ExecBegin(c) ==
  /\ Cycle(c).pc = "idle"
  /\ \A k \in Cycles : k < c => Cycle(k).pc # "idle"
  /\ executor' = Goes(c, [Cycle(c) EXCEPT !.pc = "select"], 0)
  /\ UNCHANGED others

\* The select resolves: without a row or with is_running false the call
\* returns at once; otherwise the locals are taken from the row.
ExecSelect(c) ==
  /\ Cycle(c).pc = "select"
  /\ LET row == executor.row
         stopped == IF row = None THEN TRUE ELSE ~row.is_running
     IN executor' = Goes(c, IF stopped
                            THEN [Cycle(c) EXCEPT !.pc = "returned", !.read = row]
                            ELSE [Cycle(c) EXCEPT !.pc = "switch", !.read = row,
                                                  !.newState = row.state,
                                                  !.news = row.current_news,
                                                  !.analysis = row.current_analysis,
                                                  !.decision = row.current_decision], 0)
  /\ UNCHANGED others

\* The cases of the switch other than the writes of EXECUTING: each logEvent
\* inserts a log row and an event row; a service call may throw.
ExecSwitch(c) ==
  /\ Cycle(c).pc = "switch"
  /\ LET me == Cycle(c)
         to(s) == [me EXCEPT !.pc = "update", !.newState = s]
     IN CASE me.read.state = "IDLE" ->
               executor' = Goes(c, to("SEARCHING"), 2)
          [] me.read.state = "SEARCHING" ->
               \/ \E found \in BOOLEAN :
                    executor' = Goes(c, [to("ANALYZING") EXCEPT !.news = found], 4)
               \/ executor' = Goes(c, [me EXCEPT !.pc = "catch"], 2)
          [] me.read.state = "ANALYZING" ->
               IF me.news
               THEN \/ executor' = Goes(c, [to("DECIDING") EXCEPT !.analysis = TRUE], 4)
                    \/ executor' = Goes(c, [me EXCEPT !.pc = "catch"], 2)
               ELSE executor' = Goes(c, to("IDLE"), 0)
          [] me.read.state = "DECIDING" ->
               IF me.analysis
               THEN \/ \E d \in ExecDecisions :
                         executor' = Goes(c, [to("EXECUTING") EXCEPT !.decision = d], 4)
                    \/ executor' = Goes(c, [me EXCEPT !.pc = "catch"], 2)
               ELSE executor' = Goes(c, to("IDLE"), 0)
          [] OTHER ->
               IF me.decision # None /\ me.decision # [action |-> "hold", shares |-> 0,
                                                        price |-> mockPrice]
               THEN executor' = Goes(c, [me EXCEPT !.pc = "insert"], 2)
               ELSE executor' = Goes(c, to("IDLE"), 0)
  /\ UNCHANGED others

\* EXECUTING: the trade row is inserted.
ExecInsert(c) ==
  /\ Cycle(c).pc = "insert"
  /\ executor.trades < MaxTrades
  /\ LET me == Cycle(c)
     IN executor' =
          [Goes(c, [me EXCEPT !.pc = IF me.decision.action = "buy" THEN "debit" ELSE "logged"], 1)
             EXCEPT !.trades = @ + 1]
  /\ UNCHANGED others

\* EXECUTING, buy: the holding is upserted and cash_balance is updated.
ExecDebit(c) ==
  /\ Cycle(c).pc = "debit"
  /\ executor' = [Goes(c, [Cycle(c) EXCEPT !.pc = "logged"], 2) EXCEPT !.debits = @ + 1]
  /\ UNCHANGED others

\* EXECUTING: 'Trade executed successfully' is logged; newState is IDLE.
ExecLogged(c) ==
  /\ Cycle(c).pc = "logged"
  /\ executor' = Goes(c, [Cycle(c) EXCEPT !.pc = "update", !.newState = "IDLE"], 2)
  /\ UNCHANGED others

\* The update of the agent_state row with the new state and the locals.
ExecUpdate(c) ==
  /\ Cycle(c).pc = "update"
  /\ LET me == Cycle(c)
         after == Goes(c, [me EXCEPT !.pc = "returned"], IF executor.row = None THEN 0 ELSE 1)
     IN executor' =
          IF executor.row = None THEN after
          ELSE [after EXCEPT
                  !.row = [@ EXCEPT !.state = me.newState, !.current_news = me.news,
                                    !.current_analysis = me.analysis,
                                    !.current_decision = me.decision],
                  !.armed = IF me.newState = "EXECUTING" THEN @ + 1 ELSE @]
  /\ UNCHANGED others

\* The catch of executeCycle: the error is logged, the row's state becomes
\* IDLE and the error is thrown to the route.
ExecCatch(c) ==
  /\ Cycle(c).pc = "catch"
  /\ LET after == Goes(c, [Cycle(c) EXCEPT !.pc = "threw"],
                       IF executor.row = None THEN 2 ELSE 3)
     IN executor' =
          IF executor.row = None THEN after
          ELSE [after EXCEPT !.row = [@ EXCEPT !.state = "IDLE"]]
  /\ UNCHANGED others

\* AgentExecutor.start and stop: is_running is written and the state is IDLE.
ExecRun(flag) ==
  /\ executor.row # None
  /\ executor.row.is_running # flag
  /\ executor' = [executor EXCEPT !.row = [@ EXCEPT !.is_running = flag, !.state = "IDLE"]]
  /\ UNCHANGED others

\* The agent_state row of the user: none, or any state of a running or
\* stopped agent with the locals the state was reached with.
ExecRows ==
  { [state |-> s, is_running |-> r, current_news |-> s \in {"ANALYZING", "DECIDING", "EXECUTING"},
     current_analysis |-> s \in {"DECIDING", "EXECUTING"}, current_decision |-> d] :
       s \in ExecStates, r \in BOOLEAN, d \in ExecDecisions \cup {None} }

ExecutorInit ==
  /\ ServerIdle
  /\ KeysFresh
  /\ FleetIdle
  /\ ReadsIdle
  /\ Dormant(<<>>, CHOOSE b \in ServerBudgets : b.stops)
  /\ \E row \in {None} \cup {w \in ExecRows : (w.current_decision # None) = (w.state = "EXECUTING")} :
       executor = [row |-> row, trades |-> 0, debits |-> 0, writes |-> 0,
                   armed |-> IF row = None THEN 0 ELSE IF row.state = "EXECUTING" THEN 1 ELSE 0,
                   calls |-> [c \in Cycles |-> NoCycle]]

ExecutorNext ==
  \/ \E c \in Cycles : ExecBegin(c)
  \/ \E c \in Cycles : ExecSelect(c)
  \/ \E c \in Cycles : ExecSwitch(c)
  \/ \E c \in Cycles : ExecInsert(c)
  \/ \E c \in Cycles : ExecDebit(c)
  \/ \E c \in Cycles : ExecLogged(c)
  \/ \E c \in Cycles : ExecUpdate(c)
  \/ \E c \in Cycles : ExecCatch(c)
  \/ \E flag \in BOOLEAN : ExecRun(flag)

ExecutorSpec == ExecutorInit /\ [][ExecutorNext]_vars

(* ------------------------------ properties ---------------------------- *)
\* A run() invocation is inside a state handler, suspended at one of its awaits.
InHandler(l) == loops[l].pc \notin {"done", "sleep"}

\* C1: no two state handlers of one orchestrator are in progress at the same
\* time, also when start() follows stop() while the earlier loop still sleeps.
C1_OneHandlerAtATime ==
  Cardinality({ l \in LoopIds : InHandler(l) }) <= 1

\* The rows of the transition table, as pairs; into IDLE by stop() only and
\* out of IDLE by start() only.
Listed(old, new, byStart, byStop) ==
  \/ byStop /\ new = "IDLE"
  \/ byStart /\ new = "MONITORING"
  \/ old # "IDLE" /\ new = "MONITORING"
  \/ <<old, new>> \in { <<"MONITORING", "ANALYZING">>, <<"ANALYZING", "DECIDING">>,
                        <<"DECIDING", "RISK_CHECK">>, <<"RISK_CHECK", "EXECUTING">>,
                        <<"EXECUTING", "EXPLAINING">> }

\* C2: every stateChange event of a step is a row of the transition table or
\* the move to IDLE of stop(); IDLE is left only by start(), to MONITORING.
C2_ListedTransitions ==
  [][\A i \in DOMAIN emitted' :
       emitted'[i].type = "stateChange" =>
         Listed(emitted'[i].oldState, emitted'[i].newState,
                starts' # starts, stops' # stops)]_vars

\* C3: once stop() was called and no start() followed, and every run() has
\* returned, isRunning is false and the state is IDLE.
C3_StopEndsIdle ==
  (stops > 0 /\ ~isRunning /\ \A l \in LoopIds : loops[l].pc = "done")
     => state = "IDLE"

C5_SelectedOnce == \A u \in Articles : selectCount[u] <= 1

\* C6: when ANALYZING is entered for an article, and while its analysis is
\* under way, the url of the article is recorded as processed.
C6_MarkedBeforeAnalyzing ==
  currentNews # None =>
    /\ (\E i \in DOMAIN emitted : emitted[i] = StateChange("MONITORING", "ANALYZING"))
          => hasProcessedNews(currentNews.url)
    /\ (\E l \in LoopIds : loops[l].pc = "an_gemini")
          => hasProcessedNews(currentNews.url)

\* C7: the stored cash balance is never negative, also when a PUT of the
\* configuration lands between the risk check and the update of the store.
C7_CashNonNegative == cash >= 0

\* C8: a completed buy lowered the stored cash balance by amount_usd and a
\* completed sell raised it by amount_usd, measured against the balance
\* just before the update.
C8_CashConservation ==
  lastExec # None =>
    lastExec.delta = IF lastExec.action = "buy" THEN 0 - lastExec.amount_usd
                     ELSE lastExec.amount_usd

\* C9: settlement is called only for a decision that passed the risk check
\* of the same cycle.
C9_SettlementGated ==
  \A l \in LoopIds : loops[l].pc = "ex_settle" => loops[l].ok

\* C10: the ledger never holds more than three trades whose timestamps lie
\* within one window of 24 hours.
C10_DailyLimit ==
  \A i \in 1..Len(trades) :
    Cardinality({ j \in 1..Len(trades) :
                    /\ trades[j].timestamp >= trades[i].timestamp
                    /\ trades[j].timestamp < trades[i].timestamp + Day })
      <= DailyTradeLimit

\* The risk results logged by the latest step.
RiskLogged(events) ==
  { events[i].data.data : i \in { j \in DOMAIN events :
        IF events[j].type = "log" THEN events[j].data.message = "Risk check result"
        ELSE FALSE } }

\* Trades of the ledger with a timestamp in the trailing 24 hours.
InLastDay == { j \in 1..Len(trades) : trades[j].timestamp > now - Day }

\* C11: daily_trade_limit of a risk result is true exactly when fewer than
\* three trades of the ledger lie in the trailing 24 hours: true with two
\* such trades, false with three.
C11_FrequencyBoundary ==
  \A r \in RiskLogged(emitted) :
    r.daily_trade_limit <=> (Cardinality(InLastDay) < 3)

\* A risk result with exactly two trades in the trailing 24 hours passes the
\* frequency check.
C11_TwoPass ==
  /\ Cardinality(InLastDay) = 2
  /\ \E r \in RiskLogged(emitted) : r.daily_trade_limit

\* Value of the holdings at avg_price plus cash, and the value held in ticker
\* t (prices of the portfolios checked are whole).
TotalValueOf(c, hs) ==
  LET v == SumValues(hs, DOMAIN hs) IN v.n \div v.d + c
ValueIn(t, hs) ==
  IF t \in DOMAIN hs THEN hs[t].shares * (hs[t].avg_price.n \div hs[t].avg_price.d) ELSE 0

C13_SellsAndOverall ==
  [][\A r \in RiskLogged(emitted') :
       /\ r.passed <=> (r.sufficient_balance /\ r.position_limit /\ r.daily_trade_limit)
       /\ (currentDecision # None /\ currentDecision.action = "sell") =>
            /\ r.sufficient_balance
            /\ r.position_limit
            /\ r.passed <=> r.daily_trade_limit]_vars

\* A sell larger than the cash balance passed the risk check.
C13_SellPassed ==
  /\ currentDecision # None
  /\ currentDecision.action = "sell"
  /\ cash < currentDecision.amount_usd
  /\ state = "EXECUTING"
  /\ \E r \in RiskLogged(emitted) : r.passed

\* The awaits of executeTrade, and those that follow a validated settlement.
ExecPcs     == {"ex_settle", "ex_getPortfolio", "ex_updateCash", "ex_holding", "ex_addTrade"}
AfterSettle == ExecPcs \ {"ex_settle"}

\* Loop l leaves executeTrade through its catch in this step.
Aborts(l) ==
  /\ loops[l].pc \in ExecPcs
  /\ loops'[l] # loops[l]
  /\ fault' = "inner"

\* C14: a decision of zero shares is never executed: no settlement call or
\* store update is made for it and every trade of the ledger has shares > 0.
C14_NoZeroShares ==
  /\ \A l \in LoopIds : loops[l].pc \in ExecPcs => loops[l].shares > 0
  /\ \A i \in 1..Len(trades) : trades[i].shares > 0

\* C15: when executeTrade aborts, nothing of the store was written by it:
\* cash, holdings and ledger are as they were when EXECUTING began.
C15_AbortLeavesStore ==
  [][\A l \in LoopIds :
       Aborts(l) => (~loops[l].wrote /\ store' = store)]_vars

\* What a failed settlement call leaves in the log.
SettlementFailed ==
  { LogEvent("Trade execution failed", [error |-> msg]) : msg \in ServiceErrors }

\* C16: when a step of the store fails after the settlement of the cycle was
\* validated, an error is recorded that no failed settlement produces.
C16_ReconciliationDistinguished ==
  [][\A l \in LoopIds :
       (Aborts(l) /\ loops[l].pc \in AfterSettle) =>
          \E i \in DOMAIN emitted' :
             /\ emitted'[i].type \in {"log", "error"}
             /\ emitted'[i] \notin SettlementFailed]_vars

\* The latest step moved the state to EXPLAINING.
ToExplaining(events) ==
  \E i \in DOMAIN events : events[i].type = "stateChange" /\ events[i].newState = "EXPLAINING"

\* C17: a trade is appended exactly in the steps that move to EXPLAINING,
\* one trade carrying the transaction of the settlement of that cycle; with
\* no execution under way the trades appended are as many as the validated
\* settlements.
C17_OneTradePerExecution ==
  [][/\ ToExplaining(emitted') <=> (trades' # trades)
     /\ (trades' # trades) =>
          /\ Tail(trades') = trades
          /\ \E l \in LoopIds : /\ loops[l].pc = "ex_addTrade"
                                 /\ loops'[l] # loops[l]
                                 /\ Head(trades').hash = loops[l].hash
     /\ (\A l \in LoopIds : loops'[l].pc \notin ExecPcs) =>
          Cardinality({ i \in 1..Len(trades') : trades'[i].hash > 0 }) = txSeq']_vars

\* C18: a failed search of the Signal Source, a failed call of the Reasoning
\* Service and a failed settlement each emit an error event, and the loop
\* goes on from MONITORING.
C18_UpstreamErrorEvents ==
  [][(\/ fault' \in {"signal", "reasoning"}
      \/ \E l \in LoopIds : Aborts(l) /\ loops[l].pc = "ex_settle") =>
        /\ \E i \in DOMAIN emitted' : emitted'[i].type = "error"
        /\ state' = "MONITORING"]_vars

\* The state whose handler awaits at pc.
StateOf(pc) ==
  CASE pc \in {"mon_getPortfolio", "mon_search", "mon_check", "mon_mark", "mon_addNews"}
         -> "MONITORING"
    [] pc \in {"an_getPortfolio", "an_extract", "an_gemini"} -> "ANALYZING"
    [] pc \in {"rc_getPortfolio", "rc_getTrades"} -> "RISK_CHECK"
    [] pc \in ExecPcs -> "EXECUTING"
    [] pc = "exp_gemini" -> "EXPLAINING"
    [] OTHER -> NULL

\* C19: a handler makes its next external call, or writes to the store, only
\* while the state of that handler is the newState of the latest stateChange,
\* that is the current state.
C19_WorkInsideItsState ==
  [][\A l \in LoopIds :
       (/\ InHandler(l)
        /\ loops'[l] # loops[l]
        /\ (loops'[l].pc \notin {"done", "sleep"} \/ store' # store)) =>
          state = StateOf(loops[l].pc)]_vars

\* C20: a loop whose settlement was in flight at stop() and was validated
\* does not leave run() before the cycle has been explained and completed.
C20_GracefulStop ==
  [][\A l \in LoopIds :
       (loops[l].pc = "sleep" /\ loops[l].midStop) => loops'[l].pc # "done"]_vars

\* C21: a tradeComplete event is emitted only for a Trade appended in the same
\* cycle and carries that cycle's article, analysis and decision, the
\* decision holding the id of the settlement transaction of that Trade; no
\* tradeComplete is emitted with missing working state or for a decision
\* that has no Trade.
C21_TradeCompleteMatches ==
  [][\A i \in DOMAIN emitted' :
       emitted'[i].type = "tradeComplete" =>
         LET d == emitted'[i].data
         IN IF d.news = None \/ d.analysis = None \/ d.decision = None
            THEN FALSE
            ELSE /\ d.analysis.news = d.news.url
                 /\ d.decision.ticker = d.analysis.ticker
                 /\ d.decision.amount_usd = d.analysis.amount_usd
                 /\ d.decision.hash > 0
                 /\ \E k \in DOMAIN trades :
                       /\ trades[k].hash = d.decision.hash
                       /\ trades[k].ticker = d.decision.ticker
                       /\ trades[k].action = d.decision.action
                       /\ trades[k].shares = d.decision.shares]_vars

\* A step in which executeTrade (either implementation) completed the write
\* of the holding for the decision held by loop l.
HoldingWritten(l) ==
  \/ loops[l].pc = "ex_holding" /\ loops'[l].pc = "ex_addTrade"
  \/ loops[l].pc = "ex_getPortfolio" /\ loops'[l].pc = "sleep" /\ ToExplaining(emitted')

\* The amount the step pays or receives: amount_usd in the backend
\* orchestrator, shares * price in PortfolioService.
Moved(l) == IF loops[l].pc = "ex_holding" THEN loops[l].amount
            ELSE loops[l].shares * mockPrice

\* C27: a successful buy of d shares for an amount into an existing holding
\* (old_shares, old_avg) leaves shares = old_shares + d and
\* avg_price = (old_shares * old_avg + amount) / (old_shares + d).
C27_WeightedAverage ==
  [][\A l \in LoopIds :
       (HoldingWritten(l) /\ loops[l].action = "buy"
          /\ loops[l].ticker \in DOMAIN holdings) =>
         LET old == holdings[loops[l].ticker]
             new == holdings'[loops[l].ticker]
             d   == loops[l].shares
         IN /\ new.shares = old.shares + d
            /\ ~IsNaN(new.avg_price)
            /\ new.avg_price.n * (old.shares + d) * old.avg_price.d
                 = (old.shares * old.avg_price.n + Moved(l) * old.avg_price.d)
                     * new.avg_price.d]_vars

\* C27 witness: 10 shares bought for 1000 into 10 shares at 80 left 20 at 90.
C27_TwentyAtNinety ==
  /\ lastExec # None
  /\ IF lastExec = None THEN FALSE
     ELSE lastExec.action = "buy" /\ lastExec.amount_usd = 1000
  /\ Len(trades) = 1
  /\ "AAPL" \in DOMAIN holdings
  /\ IF "AAPL" \in DOMAIN holdings
     THEN holdings["AAPL"] = [shares |-> 20, avg_price |-> Whole(90)]
     ELSE FALSE

\* C28: a successful sell of s shares from a holding of h >= s shares leaves
\* avg_price unchanged and shares = h - s when s < h, and removes the holding
\* when s = h; no holding ever has a negative share count.
C28_SellSemantics ==
  [][/\ \A l \in LoopIds :
          (HoldingWritten(l) /\ loops[l].action = "sell"
             /\ loops[l].ticker \in DOMAIN holdings) =>
            LET t == loops[l].ticker
                h == holdings[t].shares
                s == loops[l].shares
            IN /\ h >= s
               /\ IF s < h
                  THEN /\ t \in DOMAIN holdings'
                       /\ holdings'[t] = [shares |-> h - s,
                                          avg_price |-> holdings[t].avg_price]
                  ELSE t \notin DOMAIN holdings'
     /\ \A t \in DOMAIN holdings' : holdings'[t].shares >= 0]_vars

\* C28 witness: a sale of all 10 shares held removed the holding.
C28_SoldOut ==
  /\ IF lastExec = None THEN FALSE
     ELSE lastExec.action = "sell" /\ lastExec.amount_usd = 1000
  /\ Len(trades) = 1
  /\ "AAPL" \notin DOMAIN holdings

\* The first cycle of the scenario has ended: the relevant article was
\* taken and the loop is back in MONITORING, outside any handler.
CycleEnded ==
  /\ "u1" \in processed
  /\ state = "MONITORING"
  /\ \A l \in LoopIds : ~InHandler(l)

\* C29: from cash 10000 and AAPL 10 shares at 150, the answer {impact 9, buy,
\* confidence 0.9, 500}, price 100 and no prior trades, the cycle ends with
\* cash 9500, AAPL 15 shares with avg_price * 15 = 2000, exactly one Trade
\* and state MONITORING.
C29_Scenario ==
  CycleEnded =>
    /\ cash = 9500
    /\ DOMAIN holdings = {"AAPL"}
    /\ holdings["AAPL"].shares = 15
    /\ holdings["AAPL"].avg_price.n * 15 = 2000 * holdings["AAPL"].avg_price.d
    /\ Len(trades) = 1
    /\ trades[1].action = "buy" /\ trades[1].shares = 5 /\ trades[1].ticker = "AAPL"
    /\ state = "MONITORING"

\* C29 witness: the cycle of the scenario has ended with its trade recorded.
C29_CycleDone == CycleEnded /\ Len(trades) = 1 /\ cash = 9500

\* The list a history route reads.
ListOf(route) == IF route = "trades" THEN trades
                 ELSE IF route = "logs" THEN history.logs ELSE history.events

\* C30: for every non-negative limit a history read returns at most limit
\* entries, the most recently appended ones, most recent first.
C30_BoundedNewestFirst ==
  [][response' # response =>
       LET list == ListOf(response'.route)
           n    == IF Len(list) < response'.limit THEN Len(list) ELSE response'.limit
       IN /\ Len(response'.entries) <= response'.limit
          /\ response'.entries = SubSeq(list, 1, n)]_vars

\* C22: for every tenant at most one AgentOrchestrator is ever constructed,
\* also when two start requests of the tenant overlap.
C22_OneInstancePerTenant ==
  \A e \in Emails :
    Cardinality({ i \in InstIds : insts[i].phase # "none" /\ insts[i].email = e }) <= 1

\* C23: once the SIGINT handler has completed, every instance that was
\* started has isRunning = false and its settlement connection released, and
\* no run() loop makes a further external call.
C23_TeardownStopsEverything ==
  [][sig'.pc = "done" =>
       /\ \A i \in InstIds :
            insts'[i].pc # "none" => (~insts'[i].isRunning /\ ~insts'[i].connected)
       /\ sig.pc = "done" =>
            \A i \in InstIds :
              insts'[i].pc \in {"await1", "await2"} => insts'[i].pc = insts[i].pc]_vars

\* C24: a connection never receives its initial_state after an agent_event.
C24_SnapshotFirst ==
  \A c \in ClientIds :
    \A k \in DOMAIN clients[c].inbox :
      clients[c].inbox[k].type = "initial_state" =>
        \A j \in 1..(k - 1) : clients[c].inbox[j].type # "agent_event"

\* The messages the latest step added to the inbox of connection c.
Arrived(c) ==
  { clients'[c].inbox[k] : k \in (Len(clients[c].inbox) + 1)..Len(clients'[c].inbox) }

\* The events instance i emitted in the step reached every open connection
\* of its tenant and no connection of another tenant.
Routed(i) ==
  \A c \in ClientIds :
    IF clients[c].email = insts'[i].email
    THEN clients[c].status = "open" =>
           (AgentEvent(i) \in Arrived(c) \/ Len(clients[c].inbox) = MaxInbox)
    ELSE AgentEvent(i) \notin Arrived(c) /\ clients'[c].inbox = clients[c].inbox

C26_ObserverFailuresIsolated ==
  [][lastEmit'.threw =>
       \A i \in lastEmit'.from : insts'[i] = [insts[i] EXCEPT !.pc = "await2"]]_vars

\* C31: once initializePortfolio has created a tenant's portfolio,
\* getPortfolio returns it in every later state, however long the tenant is
\* not accessed.
C31_NeverImplicitlyDeleted == expiry.created => configured

\* C32: a start request for a tenant whose agent is running fails and
\* changes nothing; a stop request for a tenant whose agent is initialized
\* but not running fails and emits no event.
C32_NoSilentNoOp ==
  [][response'.seq # response.seq =>
       LET i == AgentOf(response'.email)
           running == IF i = 0 THEN FALSE ELSE insts[i].isRunning
       IN /\ (response'.route = "start" /\ i # 0 /\ running) =>
               /\ response'.status = 400
               /\ insts' = insts /\ clients' = clients /\ agents' = agents
               /\ lastEmit'.from \cup lastEmit'.lost = {}
          /\ (response'.route = "stop" /\ i # 0 /\ ~running) =>
               /\ response'.status # 200
               /\ lastEmit'.from \cup lastEmit'.lost = {}]_vars

\* C33: a step of one tenant's orchestrator leaves every other tenant's
\* portfolio, holdings, ledger, processed set, orchestrator state, working
\* state and event buffer unchanged.
C33_TenantIndependence ==
  [][\A o \in Emails \ {fleet'.actor} : Shard(o)' = Shard(o)]_vars

\* Tenant a has traded while tenant b, running too, holds an article.
C33_BothAtWork ==
  /\ fleet.actor = "a"
  /\ fleet.db["trades:a"] # <<>>
  /\ fleet.orch["a"].state = "EXPLAINING"
  /\ fleet.orch["b"].isRunning
  /\ fleet.orch["b"].currentNews # NULL

\* C34: whenever a monitoring pass begins, by whatever route the state
\* MONITORING was reached, currentNews, currentAnalysis and currentDecision
\* are all null.
C34_MonitoringStartsEmpty ==
  [][\A l \in LoopIds :
       (loops[l].pc = "sleep" /\ loops'[l].pc = "mon_getPortfolio") =>
         (currentNews = None /\ currentAnalysis = None /\ currentDecision = None)]_vars

\* C35: stop() is cooperative: between a stop() and the next start() a loop
\* whose sleep resolves begins no handler; it leaves run() and changes
\* neither the state nor the working state.  A handler in flight goes on.
C35_NoHandlerAfterStop ==
  [][\A l \in LoopIds :
       (~isRunning /\ loops[l].pc = "sleep") =>
          \/ loops'[l] = loops[l]
          \/ /\ loops'[l] = Fresh
             /\ UNCHANGED <<state, working, store, txSeq>>]_vars

\* The handler in flight at the stop has completed and set its next state,
\* and the loop has left run() without handling that state.
C35_StoppedAfterHandler ==
  /\ stops > 0
  /\ ~isRunning
  /\ starts = 1
  /\ loops[1] = Fresh
  /\ state = "ANALYZING"

\* C36: the article monitorNews selects is a candidate mentioning a ticker
\* of the tenant, not yet processed, whose score is maximal among the
\* unprocessed relevant candidates; when there is none, no article is
\* selected and the state stays MONITORING.
Unprocessed(l) ==
  { u \in filterRelevantNews(loops[l].news, loops[l].tks) : ~hasProcessedNews(u) }

C36_BestUnprocessedSelected ==
  [][\A l \in LoopIds :
       loops[l].pc = "mon_check" =>
         /\ loops'[l].pc = "mon_mark" =>
              /\ currentNews'.url = loops'[l].url
              /\ loops'[l].url \in Unprocessed(l)
              /\ \A v \in Unprocessed(l) : ArticleScore(loops'[l].url) >= ArticleScore(v)
         /\ (loops'[l] = Asleep /\ fault' = "none") =>
              /\ Unprocessed(l) = {}
              /\ UNCHANGED <<state, currentNews>>]_vars

\* The best candidate (u1) was processed before: the second best (u2) is
\* selected.
C36_SecondBestSelected ==
  \E l \in LoopIds :
    /\ loops[l].pc = "mon_mark"
    /\ loops[l].url = "u2"
    /\ "u1" \in processed
    /\ state = "MONITORING"

\* C37: the settlement is never invoked for a sell of more shares than the
\* tenant holds of the ticker, or of a ticker the tenant does not hold.
C37_SellValidatedBeforeSettlement ==
  [][\A l \in LoopIds :
       (loops[l].pc # "ex_settle" /\ loops'[l].pc = "ex_settle" /\ loops'[l].action = "sell") =>
          /\ loops'[l].ticker \in DOMAIN holdings
          /\ holdings[loops'[l].ticker].shares >= loops'[l].shares]_vars

\* C38: for every trade appended to the ledger, shares times price equals
\* the absolute change executeTrade applied to the cash balance and equals
\* the amount_usd submitted to the settlement.
Abs(n) == IF n < 0 THEN 0 - n ELSE n

C38_AmountsAgree ==
  [][\A l \in LoopIds :
       (loops[l].pc = "ex_addTrade" /\ Len(trades') = Len(trades) + 1) =>
          LET trade == Head(trades')
          IN /\ trade.shares * trade.price = Abs(loops[l].delta)
             /\ trade.shares * trade.price = loops[l].amount]_vars

\* C39: while the agent is running and every external call returns or
\* throws, from ANALYZING, DECIDING, RISK_CHECK, EXECUTING and EXPLAINING
\* the orchestrator eventually reaches MONITORING again.
C39_CycleReachesMonitoring ==
  (isRunning /\ state \in {"ANALYZING", "DECIDING", "RISK_CHECK", "EXECUTING", "EXPLAINING"})
     ~> (state = "MONITORING" \/ ~isRunning)

\* A cycle went through EXECUTING and EXPLAINING and the running agent is
\* in MONITORING again.
C39_BackInMonitoring ==
  /\ isRunning
  /\ state = "MONITORING"
  /\ lastExec # None
  /\ currentNews = None /\ currentAnalysis = None /\ currentDecision = None
  /\ \E l \in LoopIds : loops[l] = Asleep

\* C40: a decision persisted in state EXECUTING leads to at most one trade
\* row and at most one cash debit, also when executeCycle calls of the user
\* run concurrently; a call that reads is_running false writes nothing.
C40_ExecutedAtMostOnce ==
  /\ executor.trades <= executor.armed
  /\ executor.debits <= executor.armed
  /\ \A c \in 1..MaxCycles :
       LET me == executor.calls[c]
       IN (me.pc = "returned" /\ (IF me.read = None THEN TRUE ELSE ~me.read.is_running)) =>
            me.wrote = 0

====
